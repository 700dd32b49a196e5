# Heikin-Ashi scanner: a TLA+ verification project

The scanner is a set of command line programs around one data directory. They
download NSE's end-of-day files, keep prices in a parquet store, resolve which
session a run is about, scan a universe of shares for one strategy, and write
an Excel report and a run manifest; others study the signals of the past.
Programs are started by hand or by a scheduler, may overlap, may be killed
anywhere and are repeated when NSE has not published yet. This directory models
that behaviour in TLA+, checks it with TLC and proves part of it with TLAPS.

Paths below are relative to `src/nse_scanner/` of the repository.

## Inventory

| Component | State it keeps | Operations | Interacts with |
|---|---|---|---|
| End-of-day store, `data/storage.py` | one parquet file per calendar year; a DuckDB file that is only a query engine with an exclusive lock | `append_eod_prices`, `read_symbol_history`, `price_basis_composition`, `latest_trade_date`, `row_count` | ingestion and bootstrap write it, history providers read it; processes share it with no lock around the parquet files |
| History providers, `data/nse_eod.py`, `data/asof_provider.py` | none | `fetch_history` (live, or as of a date) | two store queries per symbol, each on its own connection |
| EOD ingestion, `pipeline/ingestion.py`, `cli/ingest_eod.py` | the raw copy of NSE's file | availability check, download, raw copy, append | store, NSE's site |
| Session calendar, `data/calendar.py` | a set of holidays for a few years | `resolve_holidays_for_run`, `resolve_session`, `classify_data_status` | every program that scans |
| Scan pipeline, `pipeline/` | counters and rows of one run | one loop over the universe, the summary | providers, calendar, strategy, benchmark |
| Strategy and indicators, `strategy/`, `indicators/`, `regime/` | none | the feature frame of a security, the mandatory condition, filters, score | scan and research programs build the same frame |
| Programs, `cli/` | report, manifest and replay files named after the signal date | `run_daily`, `run_scan`, `run_replay`, `ingest_eod`, `bootstrap_history`, `update_universe`, `run_research`, `run_walk_forward` | all of the above, through files |
| Reports and manifest, `reporting/` | the files they write | `write_report`, `RunManifest.write`, `build_run_summary` | programs |
| Historical bootstrap, `cli/bootstrap_history.py`, `data/yfinance_provider.py` | batches, retries, a coverage report | downloads Yahoo history, one append | store, Yahoo Finance |
| Validation and normalisation, `data/validation.py`, `data/normalization.py` | none | which rows of a table become bars | scan, bootstrap, benchmark |
| Benchmark, `data/benchmark.py` | none | one fetch with a cutoff | scan |
| Universe providers, `universe/`, `data/nse_reports.py`, `data/nse_instrument_lists.py` | none | search for a file, constituent funnel, deduplication, exclusion lists | programs |
| Universe snapshots and drift, `universe/snapshot_store.py`, `drift.py` | latest-members files, history records | `update_universe` | files |
| Research, `research/` | none | independent events, forward returns, excursions, walk-forward windows | the store's histories |
| Portfolio backtest, `portfolio/` | open positions, cash, equity | the day loop, costs, position size | research |
| Configuration, `config.py` | none | layers, merge, validation | every program |

What is hard in it, and what makes each part correct:

* **Store.** An append reads a year's file, merges, and rewrites it in place;
  nothing stops a second process from doing the same. A process can die while the
  file is half written. DuckDB raises at once when its file is locked, so the
  count that ends an append can fail after the rows are stored. *Correct when* a
  year keeps one row per (symbol, date, source), no update is lost without an
  overlap, an acknowledged row stays, and NSE's rows always win over Yahoo's.
* **History providers.** Rows and price basis come from two queries with an
  append possible in between. *Correct when* a history has one row per date, none
  after the cutoff, and the basis reported is the basis of those rows.
* **Calendar.** Walks over weekends and holiday clusters have a bound, and cross
  year boundaries for which holidays may not be loaded. *Correct when* every walk
  ends at the session its definition names and strict mode never guesses.
* **Programs.** Report, manifest, raw copy and store are rewritten one after
  another with no transaction. *Correct when* a report's signals are of the session
  in its name, a lone run leaves files that belong together, a run whose data is
  not there stops, and every run ends.
* **Scan.** One symbol's exception must not disturb another's row; RUN_HEALTH,
  Scan_Log, sheets and price basis are all derived from counters kept on the way.
  *Correct when* they agree with the Diagnostics rows.
* **Strategy and indicators.** The scan judges the last row of a history, day
  after day; the research programs judge every row of it at once, with a
  vectorised copy of the condition. *Correct when* both find the same signals and
  no column of a row that is computed row by row depends on a later bar.
* **Bootstrap and benchmark.** Yahoo Finance fails, answers nothing, leaves
  tickers out, names its columns in several ways, repeats dates and ignores the
  range. *Correct when* each symbol is reported once, its history is what was sent
  for it, and nothing after the cutoff reaches a replay.
* **Universe.** Exclusion lists may be unavailable, a symbol may be listed in
  several series, a history entry is two files named after a second, and the
  latest-only files are shared and written first. *Correct when* the funnel
  accounts for every row, entries are whole and never change, and drift is from
  the entry just before.
* **Research.** A cooldown separates events, months have different lengths, and
  the frames are cut at window ends. *Correct when* events are independent, a
  session is tested once, and every figure reads bars after its signal.
* **Backtest.** Exits and entries of one day, dates without a bar and limits that
  move with every fill. *Correct when* the books balance, no candidate is lost or
  taken twice, and a fill leaves the limits standing.

`PROJECT.json` lists the hazards line by line under `hazards`.

## Plan

Written, in this order:

1. `EodStore` with its abstraction `EodLedger`, and `EodStoreProofs`, which has the
   refinement too.
2. `TradingDays` (date arithmetic as operators), `SessionCalendar` (the loops
   that compute it).
3. `DailyRun`, which composes the programs around one data directory and uses
   `TradingDays`; the inside of an append is `EodStore`'s; `DailyRunProofs`.
4. `ScanRun`, the inside of a scan, on `TradingDays`; `ScanRunProofs`, for it and
   for `SessionCalendar`.
5. `Mainboard` (the funnel) and `UniverseDrift` (the comparison) as operators,
   and `UniverseUpdate`, the program that writes the universe, on them;
   `UniverseUpdateProofs`.
6. `PortfolioBacktest`, the day loop, and `PositionSizing`, with
   `PortfolioBacktestProofs` for both; `SumProofs`, what the proofs need to know
   of sums, least and greatest numbers and recursive functions.
7. `EventStudy`, `WalkForward` and `Configuration` as operators, and
   `ResearchRun`, the two research programs, on them; `ResearchRunProofs`.
8. `Indicators` as operators and `SymbolScan`, one security under the scan and
   under the study.
9. `YahooFrames` (tables to bars) and `YahooHistory` (bootstrap and benchmark).
10. `HistoryProofs`, for 8 and 9.

Left: the row the universe keeps of a symbol listed in several series (EQ first)
against the one the store keeps (last in file order), which needs `Mainboard` and
`EodStore` in one module.

## Modules

### EodStore

One process per program invocation that appends (`Writers`) or fetches
(`Readers`), with the steps other processes can see between as actions.

| State | Code |
|---|---|
| `health`, `rows` | each `year=YYYY` parquet file: absent, readable with its rows, or torn |
| `lock` | the process whose `duckdb.connect` is open |
| `pc`, `batch`, `todo`, `cur`, `base` | a call of `append_eod_prices`: the incoming frame, the years of its `groupby` still to do, the year in hand, `existing` |
| `rpc`, `want`, `series`, `basis`, `outcome` | a call of `fetch_history`: its arguments, what each query returned, how it ended |
| `clash` | files two processes had open for writing at once: what such a file holds afterwards is undefined |
| `ledger`, `raced`, `acked`, `moved` | history variables for the properties |

`ReadPartition`, `OpenPartition`, `ClosePartition` are the read, the truncation
and the completion of one in-place rewrite; `ConnectToCount`, `CountRows`,
`ReturnZero` the count and the return; every one has its failing twin
(`...Fails`). `Interrupt` is death at any step. `QueryHistory` and `QueryBasis`
are the two queries of a fetch. `Batches` are the frames the two programs can
build: one session of NSE rows in file order, possibly with a symbol twice
(several series), or Yahoo rows with ascending dates. `Upsert` is
concat-then-`drop_duplicates(keep="last")`, `EffectiveRows` the SQL window,
`Basis` the composition.

Abstractions: a row's OHLCV is one of `Bars`; the counts returned are left out;
a failing `to_parquet` behaves like a death in it; a call the program would
repeat is a new call.

### EodLedger

The promise: a book of rows per year, published whole, never dropping a key,
one year at a time; a year may be lost but never restarts from nothing.
`EodStore` implements it (`ImplementsLedger`) with one writer, under the mapping
`Standing`/`Book`: while a file is open the book is still the copy its writer
holds. With two writers it does not: overlapping rewrites drop keys, which is
what `raced` marks.

### TradingDays and SessionCalendar

`TradingDays` defines the calendar as sets: the latest or earliest trading day
within `MaxLook`, the number of sessions between two dates, the status of a bar.
`SessionCalendar` runs the code's loops, one action per iteration, from loading
the holiday file (with years missing from it, strict or not) through
`resolve_session` to `classify_data_status`, and is checked and proved against
those definitions. Date 0 is a Monday. The model's holiday file is complete for
the years it lists; a closure missing inside a listed year cannot be noticed by
the code.

### DailyRun

One process per invocation of `run_daily` (with or without `--skip-ingest`),
`run_scan`, `run_replay`, `ingest_eod`, `bootstrap_history`. `kind`, `pc`,
`session`, `copy`, `base`, `latest`, `scanned`, `code` are the locals of the
invocation; `store`, `torn`, `file` are the directory; `published` is NSE. Each
action is a step up to the next point another process can observe, including
every early return and its exit code. The clock and NSE's publication move on
their own.

Abstractions: the store is one partition whose sessions hold nothing, Yahoo
rows, or an edition of NSE's file (the per-key, per-year detail is in
`EodStore`); a scan reads it in one step (`ScanRun` reads it symbol by symbol);
sessions before day 1 are outside the model; `CountFails` may happen whenever
another invocation is active, which stands for that invocation having DuckDB
open; an unlocked reader of the store is not modelled as holding the lock for
the writers' other steps, which do not connect. Runs with
`--allow-missing-holidays` resolve the same sessions as others here
(`SessionCalendar` has the difference).

### ScanRun

The loop of `run_scan`, one action per way out of its body (`NoData`,
`Insufficient`, `StrategyFails`, `Passes`, `GateTrips`, `ScanRaises`), then
`Finish`. What a fetch finds and what the strategy says are nondeterministic, so
every order of outcomes over the universe is explored. Thresholds are constants:
`oneIn * Failures > size` is the code's `rate > 1 / oneIn`. `Manifest` and
`Summary` are what `build_run_manifest` and `build_run_summary` take from a
finished scan.

### Indicators and SymbolScan

`Indicators` has the columns of `build_feature_frame` as operators on a sequence
of bars, and the mandatory condition twice: `Passes` for one row
(`evaluate_mandatory`) and `MandatoryRows` for all (`evaluate_mandatory_vectorized`).
Prices are integers and nothing is rounded: a column that is a quotient or a
root is kept as the integers that determine it, and a comparison with it is
cleared of denominators and squared (`UpperAbove` is `BB_Upper > a / b`); the
recursive averages are functions from rows to such integers (`HaOpen`, and
`Wilder`, whose step is `NextAtr`).
Windows that are not full, a zero volume and an ATR that has not started are
missing values, as in pandas. What only rounding could make different is
outside the model, the sanity gate of `indicators/sanity.py` among it.

`SymbolScan` gives one security a bar a session (`Session`), of any shape of
`Candles`, with gaps between days. `verdicts` keeps what `run_scan` would say on
each: `Judge` validates (`Clean`), counts rows, builds the features, applies the
condition and the filters and asks for a score, which raises when a component is
missing (`ScoreStatus`). What a Diagnostics row shows (`FeatureFields`) has three
parts that behave differently:

* `Columns`, computed row by row from the security's own bars;
* `AgainstIndex`, `RS_*` and `Market_Regime`, against the scan's benchmark;
* `Labels`, `History_Quality` and `SMA20/50/200_Status`, which `build_feature_frame`
  sets on every row from the number of rows the frame has.

The research programs' view is the same operators over the bars as stored, without
an index (`NoBenchmark`: `run_research.py:74` and `run_walk_forward.py:115` pass
none). So a study's early row carries the labels of the whole history, where a scan
of that day had fewer rows: `NoLookAhead` claims of the labels only that they never
say less than before, and `StudyFindsScannedSignals` compares the columns and not
the benchmark's part.

### YahooFrames and YahooHistory

`YahooFrames` is how an answer becomes bars: `ExtractSymbolFrame` and
`NormalizeTickerFrame` for each way the columns may be named, `ValidateAndClean`
for the rows. `YahooHistory` has the two consumers. A bootstrap maps members to
Yahoo symbols (`Tickers`, with the override table), downloads them in batches
with retries (`Download`, `Retry`, `BatchFails`, `ExtractSymbols`) and hands what
is left to the store with a coverage report (`Store`); an append that raises ends the
program with no report (`StoreFails`). A scan fetches its
benchmark up to its session (`FetchBenchmark`, `WithinCutoff`).

Two limits of the code show in the model. Two members with one Yahoo symbol:
`yf_to_nse` keeps one of them, and the report does not mention the other
(`Shared` exempts it). And a batch of one ticker whose answer names the ticker
first: the first level of the columns is taken for the fields, and the symbol
counts as not downloaded (`HistoryIsWhole` asks for batches of two or more).

### Mainboard, UniverseDrift and UniverseUpdate

`Mainboard` is the funnel from NSE's security file to the constituents as
operators on sets of row numbers: `MainboardRows` (`filter_mainboard_equity`),
`ExcludedBy` (the attribution of a row to the first fetched list that names it),
`Deduplicated` (`deduplicate_mainboard`), `Diagnostics` and `Snapshot` (the
counts printed and stored). Rows have a symbol, an ISIN that may be missing, and
a series. `UniverseDrift` is `compute_universe_drift`, with the lists of a report
whole: the code stores each list's exact length and its first `SAMPLE_CAP` (25)
entries, so a stored report turns the old universe into the new one only where no
list is longer, which is what `DriftIsFromPredecessor` says.

`UniverseUpdate` has one process per invocation of `update_universe`, of either
scope: the bounded search for a URL (`ProbeFails`, `ProbeFinds`, for NIFTY_200
`IndexFails`, `IndexFound`), the download, the funnel (`Classify`), the count
gate (`Gate`), the two separate reads of the newest history entry
(`ReadMembers`, `ReadRecord`), and four files written in place (`OpenFile`,
`CloseFile`, in the order of `After`) with the check for an existing entry
(`AppendEntry`) between the second and the third.

| State | Code |
|---|---|
| `disk` | `universe_snapshots` and `security_master_latest`, shared by the scopes, and the `<stamp>_members` / `<stamp>_snapshot` pairs of each scope; each absent, torn, or by a run |
| `now`, `stamp` | the second, and `retrieved_at` at the resolution of the stamp |
| `probe`, `funnel`, `members`, `previous`, `drift`, `code` | locals of an invocation |
| `mixed`, `alone`, `newest` | as in `DailyRun` |

A directory with one earlier mainboard entry is the initial state, so that a
mainboard update finds a history and an index update none. Abstractions: the
lists are fetched in one step, which touches nothing shared; the clock does not
go back; a failing write behaves like a death in it; of a drift report the
deltas of the exclusion counts are left out, and the override CSV of NIFTY_200
is one of its URLs.

The model shows two things an operator should know. The latest-only files run
ahead of the history when a run dies after writing them, or is refused because
another run retrieved in the same second. And a run that dies inside its last
write leaves a torn record that stays the latest one listed: each later update
of the scope raises in `ReadRecord` until the file is removed.

### PortfolioBacktest and PositionSizing

The day loop of `run_portfolio_backtest`, one action per turn of its inner
loops: `ClosePosition`, `StartFilling`, `Fill` or `Skip`, `StopFilling`, `Mark`,
and `ComputeMetrics` at the end. Positions are numbers in the list of candidates;
`cash`, `open`, `shares`, `closed`, `equity` are the code's; `taken` and `skipped`
are history variables. `today` stands on the dates any price series has, so a
candidate whose entry is on none of them is never looked at and one whose exit
is on none of them, or on its entry day, stays open. Money is whole units and the
percentages of the limits are cleared of denominators; the annual return, the
mean and the Sharpe-like ratios are left out; the drawdown is kept as the date it is
found on (`Deepest`), whose equity and peak are its quotient. `PositionSizing` is
`calculate_position_size` of `portfolio/risk.py`, which no program calls yet.

### EventStudy, WalkForward, Configuration and ResearchRun

`EventStudy` has `extract_independent_events` as a fold over a frame's rows
(`LastEvent`), and for each figure the rows it reads (`EntryRow`, `ReturnRow`,
`ExcursionRows`): prices are left out, since which bar is read is what can be
wrong. `WalkForward` has the windows over dates written yyyymmdd, with
`relativedelta`'s month arithmetic. `Configuration` is `load_config`: the layers
`Layers`, laid one over the other by `Overridden`, the errors `Known` and `Valid`.

`ResearchRun` is both programs: `Configure`, `Load`, then `Extract`,
`RestrictDates`, `Measure`, `Report` for `run_research` and `Roll`, `Evaluate`
for `run_walk_forward`, with every early return and exception as an `exit`.
`request` has the arguments, the YAML layer and the environment. Of the report
the counts are kept (`Describe`, `Clusters`, `SectorCounts`).

## Runs

| Run | What it asks | Bounds, and why they are enough |
|---|---|---|
| `store_race` | lost updates and acknowledged rows | 2 writers (symmetric), two dates in two years: overlap needs two, and Yahoo frames of two rows cross the year boundary; NSE's frames are of the first date, which keeps the run small |
| `store_fetch` | fetches beside appends, key uniqueness, NSE over Yahoo, replays against later sessions, refinement, every call returns | 1 writer, 1 reader; three dates, two in one year and one in the next: NSE's are the first two, so that a rewrite for the second finds rows of the first, Yahoo's the first and the last, so that a frame of two rows crosses the boundary; a live fetch and one as of date 1 |
| `calendar` | the walks and counts against their definitions, strict runs against the full calendar | years of ten days; run dates 12 to 17, half of which ask for years 0 and 1 and half for 1 and 2, bars 4 to 18 and eight candidate holidays in all three years, so that bars and closures also lie in a year the run did not load; both sides of 15:30, every subset of the holidays and of the listed years; `MaxLook` 4 is exceeded by some clusters |
| `daily` | reports against sessions, matching files, termination | any 2 of the programs, 2 days, 1 edition and the header-only file; two invocations are needed for an overlap, two days for a clock that moves under a run |
| `scan` | rows, counters, sheets, health, manifest, basis | universes of 0 to 3, four bar ages, two bases; thresholds scaled to one in 2 and one in 3, so that RED, YELLOW and GREEN all occur and both rates are met exactly, by 2 and by 3 members |
| `universe` | the funnel and its diagnostics, whole and permanent history entries, drift, latest-only files, termination | 2 invocations of either scope after an earlier mainboard one, seconds 2 and 3: an overlap and a shared second need two, a wrong predecessor needs a third; a security file with every pair of series, a duplicate row, rows named by symbol, by ISIN and by both lists, and sizes below, in and above the gate |
| `symbol` | no look-ahead, scan against study, scored signals | 6 sessions, windows of 2 and 3 rows, a validation minimum of 4: windows fill, and slide, and validation may drop a row in the middle; five shapes of candle, among them one of a single price, one past the overshoot bound and one that is invalid; labels from 3, 5 and 6 rows, so that each changes while bars arrive |
| `yahoo` | coverage, histories as sent, benchmark cutoff | batches of 2 over 0, 2 and 3 members, so a last batch of one and two members with one Yahoo symbol, in one batch and in two; one retry; dates that repeat, are out of order, or lie past the cutoff; every shape of columns |
| `backtest` | books, candidates, limits, metrics | lists of up to 3 of 16 candidates over 4 dates, two slots, two sectors: an exit frees a slot for the third, the exposure and sector limits bind, also at exact equality, series have gaps and a missing close |
| `research` | layers, events, windows, measurements | every assignment of "below", "above", "signal" to 7 dates around month ends of a leap year and 6 around mid-month, a second security, windows of 12 and 6 months (the code's 3 years and 6 months need longer frames, not another case), cooldown 2, horizons 1 and 2 |

Two runs are expected to be violated. Each states a sentence of the repository
that the code does not keep:

| Run | The sentence | What happens |
|---|---|---|
| `store_basis` | `data/storage.py:219-221`, the basis reflects what was actually returned | an append between the two queries |
| `research_cooldown` | `research/events.py:65-69`, the cooldown is a number of trading rows of the security | the loop counts signal days, so a signal many rows after the last event may be dropped |

Other places where a comment or docstring says more than the code does, met while
modelling and not checked by a run of their own:

* `pipeline/ingestion.py:5-6`: a failure never leaves a corrupted partial ingest.
  A death inside `to_parquet` leaves the year unreadable (`health` torn in `EodStore`).
* `data/asof_provider.py:3-6`: data ingested after the as-of date is structurally
  invisible. The cutoff is on trade dates; a backfill of an older session changes
  an older replay. `ReplayIgnoresLaterSessions` is what does hold.
* `data/calendar.py:221`: a bar after the expected session is impossible.
  `--date` in the past, or an ingestion during the scan, gives one; its signals are
  dropped as INVALID.
* `reporting/excel.py:157-159`: what is not in EOD_Signals is in Stale_Signals. A
  passing INVALID row, or a current one an optional filter rejects, is in neither.
* `data/nse_reports.py:525-530`: a row dropped in favour of a less severe series
  other than EQ is labelled a duplicate of the same series.
* `research/statistics.py:151-152`: the sectors' counts reconcile with the sample
  size; both leave out missing returns, while the stocks and days printed beside
  them do not, so there may be more stocks than `n` (`Describe`).
* `strategy/filters.py:11-12`: a filter whose input is NaN degrades to "not applied".
  It is applied and fails: every check begins with `pd.notna` (or compares the missing
  value), so an enabled filter removes the signal (`Checks`, `OptionalPass`).
* `pipeline/features.py:26`: the bars must already be validated. Both research
  programs pass them as `read_symbol_history` returns them.
* `cli/run_walk_forward.py:39-41`: the script exists to fence train from test. It
  fences the dates of signals (`WindowsKeepEvents`); the bar after the signal and the
  bars a return reads are the whole history's and may lie past the window, so the
  returns of a train window may read bars of its test window.
* `config.py:274-283`: an environment variable with other than two parts after the
  prefix is passed over silently.
* `RUN_HEALTH` does not look at staleness: a run all of whose bars are old is GREEN.
* `run_research` raises KeyError when there are no events and a date range is
  given, and when the horizon is not among `forward_return_horizons` (`exit`).

Deadlock is checked in the store runs, where every process can always start
another call. In the others the system really stops: a run blocked by the
calendar or failed, all invocations done, a scan or a study finished.

## Fairness

`EodStore`: weak fairness of each process's own steps once a call began
(`WriterStep`, `ReaderStep`). The operating system schedules a live process,
`duckdb.connect` raises instead of waiting, and no step waits for another
process. Nobody is obliged to start a call, to die, or to let the day pass.
`DailyRun`: weak fairness of each invocation's steps, for the same reason; NSE
need not publish and the clock need not advance. `UniverseUpdate` likewise: a
request ends or times out, and nothing is waited for. The other modules are one
sequential program each and state no liveness.

## Proofs

A theorem holds for every value of the constants that meets the named
assumptions of its module. Each file builds one inductive invariant, proves that
the initial states meet it and that each action keeps it, and takes the
properties from it.

`EodStoreProofs`, for every set of writers, readers, symbols, payloads and every
number of dates and years:

* `TypeCorrect`: `TypeOK`.
* `WellFormedPartitions`, `NothingLost`: from `StoreInv`, which adds to
  `PartitionsWellFormed` and `NoLostUpdate` that a copy a writer holds of an
  unraced partition is the ledger's (`CopiesFresh`) and that an unreadable file
  holds no rows (`TornIsEmpty`). Without `CopiesFresh` the merge step proves
  nothing: `rows' = Upsert(base, ...)` speaks of the copy, not of the file.
* `AcknowledgedRowsStay`: from `AckInv`. An acknowledged key is in the ledger
  (`AckedInLedger`), since each row of a frame whose year is done is there
  (`FramesInLedger`) and a writer that counts has no year left
  (`CountedWhenDone`); `NoLostUpdate` carries it from the ledger to the file.
* `NseStays`: the action property `AckedSessionsShown`, from `AckedRowsStored`
  in the state before the query.
* `FetchesSound`, `BasisAccurate`: from `FetchInv`, which adds that the rows a
  reader holds between its two queries are still the store's unless a partition
  was rewritten (`SeriesCurrent`).
* `ReplaysKeepTheirHistory`: the action property `ReplayIgnoresLaterSessions`, from
  `UpsertLeavesEarlier`: a batch whose rows are all after a date neither adds nor
  drops a row up to it, and the preference for NSE only compares rows of one date.

`UpsertWellFormed`, `LastOfKey` and `UpsertKeepsKeys` are the facts about the
merge these rest on: that the last row of a key in a frame exists is a statement
about finite sequences.

`OneWriterImplementsLedger` in the same module is the refinement: under the
assumption that there is at most one writer (`OneWriter`), every step of the store
maps to a publication, a loss, or nothing. `SerialInv` says what a lone writer can
rely on: the copy it merges into is the file as it stands, the file it opened is
the torn one, and a readable file has rows. The theorem is false without
`OneWriter`.

`ScanRunProofs` proves the invariants of the calendar for every set of run dates,
bars and closures, every bound, window and length of a year:

* `CalendarTypeCorrect`: `CalendarTypeOK`.
* `AnswersDefined` from `SessionsResolved` and `StatusesCountSessions`. The
  first needs `WalkInv`: the days a walk has passed are no trading days, and its
  position follows from the iterations left. The second needs `CountInv`: the
  counter is the number of sessions up to the day before the one in hand.
* `StrictRunsOfficial` from these and `StrictInv`: a strict run past its gate
  knows every holiday of the required years, hence of its window
  (`YearsMonotone`). `CalendarAssumption` has what this needs: the bound of the
  walks is within the window. The code's are 30 days and 35.

`DailyRunProofs` proves, for any number of invocations of the five programs over
any number of days, editions and holidays:

* `TypeCorrect` from `TypeInv`: a copy of the store held by an invocation is a
  readable one (`CopyUsable`), an invocation is at a step of its own program
  (`Routed`), and past the calendar its session is a trading day
  (`SessionResolved`).
* `SignalsOfSession`: a file with rows holds what its owner scanned
  (`ReportsOwned`), and a verdict CURRENT is only given to a bar of the session
  the file is named after (`CurrentIsOfSession`, a fact about `TradingDays`).
* `LoneScans`, `LoneMatches`: an invocation nobody overlapped carries the session
  it ingested from the raw copy through the store to the scan (`Carried`), and at
  its end the files are all its own (`Placed`). `Lone` says what being alone gives:
  no other invocation is active, so no other moved a file. Without `Undecided`
  an invocation that has not started could already own a file.

  `RunsAreNoContents` (an invocation is not an edition of a file) is the only
  assumption added for the proof.

For `ScanRun` it proves, for every universe, set of ages and thresholds,
`TypeCorrect` and, from one invariant, `MembersAccountedFor`, `SignalsCurrent`,
`HealthSound` and `BasisCovers`. The invariant says that the rows so far have the
right shape (`Shape`), that each visited member has one row, one counter and one
place (`EveryMemberAccountedFor`), that the signals are the rows that passed
(`SignalsFromRows`), that each basis seen was recorded (`BasesObserved`), that a
member with no validated bars has no status (`UnvalidatedUnclassified`), and that
what a finished scan reports follows from its counters (`Derived`).

`UniverseUpdateProofs` proves, for any number of overlapping updates of either
scope and every security file, the properties of `UniverseUpdate` but its liveness.
Its invariant (`UniverseInductive`) says who may be writing what:

* A run nothing overlapped is the only one at work (`OverlapInv`), so the shared
  files are its own once it wrote them (`NewestInv`): `LatestIsNewest`.
* A run that was overlapped still finds of its entry on the disk what it put there
  (`EntryInv`), unless another run of its scope retrieved in the same second
  (`Contested`): `EntriesWhole`, `EntriesStay`. Without `Contested` the invariant is
  false, since two runs of one second write one pair of files.
* What a run read of the history is what stood there (`PredecessorInv`), and its
  report is the drift since that (`ReportInv`): `DriftFromPredecessor`, which also
  needs that removing and adding what `compute_universe_drift` reports gives the
  new universe.
* `UniverseFunnel` is about the operators of `Mainboard`: every row is kept, a
  duplicate, or attributed to the first list that names it, and never two of these;
  the counts add up since sets that do not meet have sizes that do (`SumOfSizes`).
  The proof corrected the statement: a note below a list's rows is no row of it.

`PortfolioBacktestProofs` proves, for every list of candidates, prices, costs and
limits:

* `BacktestAccounts`: at every point of the day loop a candidate is before, at or
  past its entry, and was entered (`Entered`) or left (`Left`) accordingly; the sets
  are disjoint (`Partition`) and the cursors stand where the loops put them
  (`Standing`).
* `MoneyIsKept`: the inductive form (`Money`) is that cash and the open positions at
  cost are the capital and the gains of the closed trades, cash never negative. A
  sale moves one term between the sums, a fill moves cash into the first.
* `FillsStayWithinLimits`: the action property, from `Money` and from what a floored
  quotient leaves (`Fraction`).
* `MetricsAreTheRuns`: once the metrics are there they are those of the last state
  (`Measured`). `LosingRun` is the length of a block of losses that no loss comes
  before (`Streak`), so its maximum is the longest block; of finitely many quotients
  one is least (`LeastFraction`), so the date of the drawdown exists; the cost
  `costs.py` computes is the one `config.py` calls a round trip, whatever the fees
  (`RoundTripIsBrokerCost`).
* `SizeWithinRisk`, of `PositionSizing`: the loss at the stop stays within the
  capital at risk, from what a floored quotient leaves (`DivTimes`) and from the
  caps, each of which only shrinks a position (`CappedIs`).

`ResearchRunProofs` proves, for every configuration, history, horizon and window
length, the properties of the run `research`. Its invariant (`ResearchInductive`)
says where a program stands (`Where`), and that its events and figures (`Studied`)
and its windows' samples (`Walked`) are those of the histories it loaded.

* `ConfigurationIsLayered`: a field's value is that of the last layer naming it.
* `StudyEventsIndependent` from `LastEventIs`, the recursion step by step. An event
  is fixed by the rows up to its own, so that cutting a frame after a date changes no
  event up to it (`EventsOfPrefix`) and a window's events are the whole history's on
  its dates (`WindowEvents`): `WalkKeepsEvents`. It says which events are measured; the
  bars their returns read may lie past the window.
* `MeasuredFromEntryOn`: no figure reads a row before its entry, whatever integer the
  horizon is (`HorizonAssumption`), and the counts printed add up.
* `SessionsAreTestedOnce`: a test window starts on the day after the one before it
  ends, but for the end of a month (`Rolling`, `NextWindow`), from the arithmetic of
  dates written yyyymmdd (`DateOfIs`, `AddMonthsIs`). The assumption on the histories
  says that they have dates, of years from 1 on, as Python's are.

`HistoryProofs` proves of a bootstrap and of a benchmark, for every universe, batch
size, number of retries and table Yahoo may send:

* `BenchmarkIsWithinCutoff`: what a scan keeps of its benchmark is within its cutoff.
* `CoverageIsComplete` and `HistoriesAsSent` from `BootstrapInv`: the tickers of the
  batches done have a history or an error (`TickersAccountedFor`), a history is
  rows Yahoo sent under its ticker (`ResultsAsSent`), and rows sent for a ticker of
  one member became its history (`SentAsResult`). The last needs `DataIsSent`: the
  answer in hand is on the record, so that a batch being extracted is covered
  before its tickers count as done. `NoFrameAssumption` says that `None` is no frame.

The proof found two arms of a CASE in `ExtractSymbolFrame` that overlapped, where TLC
takes the first; they are disjoint now, as the code's early returns are.

Of one security under the scan and under the study it proves, for every history of
candles, index, set of filters and parameters of the indicators:

* `NeverLooksAhead`: the action property `NoLookAhead`. A column of a row is the same
  in two histories that are the same up to that row (`SameUpTo`): for windows by sums
  over the same rows, for the recursive columns since such a function exists
  (`HaOpenIs`, `WilderIs`) and each of its values reads rows up to its own. So
  are the condition (`PassesShared`) and, with any index, the columns, the breakout
  state and the filters' checks (`FeaturesShared`). The labels of a longer history
  say no less (`LabelsNoWorse`); that they do not stay the same is why the property
  keeps them apart.
* `StudyAgreesWithScans` and `SignalsAreScored` from `VerdictsInv`: each verdict is
  `Judge` of the history as it was. Of validated rows `Clean` keeps all
  (`CleanBars`), so the two views are of one sequence: they agree on signals and
  columns, not on what the scan's index adds nor on the labels. There a scan that misses its
  ATR (`SECURITY_SCAN_FAILURE`) has no signal the study would find: an ATR of zero is
  a quotient whose numerator is a sum of true ranges, all zero, so the closes have not
  moved (`FlatWithoutAtr`), and a close equal to its window's mean is not above the
  band (`FlatNotAbove`).

  Both theorems have the hypothesis `RowsCover`: the rows a scan asks for cover the
  windows of the band and the ATR, which is what `config.py:43` says of
  `min_rows_primary`, and the ATR is of more than one row. `load_config` does not
  check it. Without it they are false: a scan with too few rows for its ATR ends in
  an exception on a row where the study has a signal.

`SumProofs` has what several of these rest on. A non-empty set of numbers has a
least and, when finite, a greatest member; a recursive function over 0 .. n exists
(`RecursionExists`), and so does the recursion under the library's sums, which do
not depend on the order they are taken in (`SumOfMember`); a sum of naturals is zero
when every one is (`ZeroSum`), and a sum of equal numbers a product (`SumOfEqual`).
Each is an induction over data, put as: of the counterexamples take a least one.

Every invariant and action property that a passing run checks is stated by one of
these theorems. Only model-checked is liveness, `CallsReturn` and `RunsFinish`,
which is beyond the prover.

## Not modelled

* `universe/security_master.py`: the derivation of records and the mapping to Yahoo
  symbols, apart from the override table (`Tickers`). `trim_incomplete_candle`,
  `latest_trade_date` and `row_count`, which no modelled path calls.
* Parsing of YAML, CSV, numbers and dates: a file is read, or it is not.
* What only floating point decides: means, bootstrap confidence intervals,
  Sharpe-like ratios, annualised returns, the sanity gate of the indicators.
  TLC has integers; where a comparison matters it is cleared of denominators.
* `research/sensitivity.py`, `research/survivorship.py` and
  `strategy/registry.py`, which keep no state, and `data/corporate_actions.py`
  and `data/provenance.py`, which no program calls.
* Data classes, logging, console output, offline fixtures, workbook layout, and
  the notebook under `legacy/`, which the package replaced.
* NSE's and Yahoo's sites appear only as the answers the code handles.

## Running

    tlc -workers 2 -config MCEodStore_fetch.cfg MCEodStore
    tlapm EodStoreProofs.tla

`PROJECT.json` lists every run with its module, configuration and properties,
the mutation that breaks each property, and the source lines of every definition.
