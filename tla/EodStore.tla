------------------------------- MODULE EodStore -------------------------------
(***************************************************************************)
(* The local end-of-day price store (data/storage.py) as the command line  *)
(* programs share it: processes that append a batch (pipeline/ingestion.py *)
(* and cli/bootstrap_history.py) and processes that fetch one symbol's     *)
(* history (data/nse_eod.py, data/asof_provider.py).  Nothing coordinates  *)
(* them but the exclusive lock DuckDB takes on its file while a connection *)
(* is open; the parquet partitions are read and rewritten outside it.      *)
(***************************************************************************)
EXTENDS Integers, Sequences, FiniteSets

CONSTANTS
    Writers,     \* processes that append (run_daily, ingest_eod, bootstrap)
    Readers,     \* processes that fetch history (scans and replays)
    Symbols,     \* NSE symbols
    Bars,        \* distinguishable OHLCV payloads
    MaxDate,     \* the last trade date of the model
    FirstDay,    \* the day the model starts on
    YearOf,      \* the calendar year of each date
    MaxFrame,    \* the most rows one batch has
    NseDates,    \* the dates NSE has a file of
    YahooDates,  \* the dates Yahoo has bars of
    AsOfDates,   \* the dates replays are run as of
    YfBasis,     \* price basis of bootstrap rows (yfinance_auto_adjust)
    NoProcess    \* holder of the free DuckDB lock

Dates == 1 .. MaxDate
Sources == {"NSE", "YFINANCE"}
Bases == {"RAW", "ADJUSTED"}

ASSUME DatesAssumption ==
    /\ MaxDate \in Nat \ {0}
    /\ FirstDay \in Dates
    /\ YearOf \in [Dates -> Nat]
    /\ MaxFrame \in Nat
    /\ NseDates \cup YahooDates \subseteq Dates
    /\ AsOfDates \subseteq Dates

ASSUME ProcessAssumption ==
    /\ Writers \cap Readers = {}
    /\ NoProcess \notin Writers \cup Readers

ASSUME BasisAssumption == YfBasis \in Bases

Years == {YearOf[d] : d \in Dates}

\* A row of eod_prices: the identifying columns, the payload, and the day of
\* its ingested_at stamp.
Row == [sym : Symbols, date : Dates, src : Sources, basis : Bases,
        bar : Bars, ingested : Dates]

\* drop_duplicates' subset
Key(r) == <<r.sym, r.date, r.src>>
Keys(R) == {Key(r) : r \in R}

\* as_of: a date, or None for a live read
None == 0
Cutoffs == AsOfDates \cup {None}

-------------------------------------------------------------------------------
(* The batches the two programs append. *)

\* ingest_session: one session's frame in file order.  A symbol may come more
\* than once (one row per series EQ/BE/BZ), and no row at all may survive the
\* series filter and dropna.
NseBatches(t) ==
    UNION { UNION { { [i \in 1 .. n |-> [sym |-> f[i][1], date |-> d,
                                          src |-> "NSE", basis |-> "RAW",
                                          bar |-> f[i][2], ingested |-> t]]
                      : f \in [1 .. n -> Symbols \X Bars] }
                    : n \in 0 .. MaxFrame }
            : d \in {x \in NseDates : x <= t} }

DatesAscend(g) ==
    \A i, j \in DOMAIN g : (i < j /\ g[i][1] = g[j][1]) => g[i][2] < g[j][2]

\* bootstrap_history: at least one row, each symbol's dates ascending and
\* distinct (validate_and_clean_ohlc), all symbols in one frame.
BootstrapBatches(t) ==
    UNION { { [i \in 1 .. n |-> [sym |-> f[i][1], date |-> f[i][2],
                                  src |-> "YFINANCE", basis |-> YfBasis,
                                  bar |-> f[i][3], ingested |-> t]]
              : f \in {g \in [1 .. n -> Symbols \X {d \in YahooDates : d <= t} \X Bars] :
                          DatesAscend(g)} }
            : n \in 1 .. MaxFrame }

Batches(t) == NseBatches(t) \cup BootstrapBatches(t)

-------------------------------------------------------------------------------
(* The pure part of data/storage.py. *)

\* Mutation: each partition gets the whole batch, not its group of it.
WholeBatch(b, y) == DOMAIN b

InYear(b, y) == {i \in DOMAIN b : YearOf[b[i].date] = y}

\* groupby("_year"): the partitions a batch touches
YearsOf(b) == {YearOf[b[i].date] : i \in DOMAIN b}

\* Mutations of Upsert: a subset without source; the partition overwritten by the
\* incoming rows.
UpsertBySymbolAndDate(existing, b, y) ==
    {r \in existing : \A i \in InYear(b, y) : <<b[i].sym, b[i].date>> # <<r.sym, r.date>>}
        \cup {b[i] : i \in {k \in InYear(b, y) :
                              \A j \in InYear(b, y) : Key(b[j]) = Key(b[k]) => j <= k}}

UpsertOverwriting(existing, b, y) == {b[i] : i \in InYear(b, y)}

\* concat([existing, year_df]).drop_duplicates(keys, keep="last")
Upsert(existing, b, y) ==
    {r \in existing : \A i \in InYear(b, y) : Key(b[i]) # Key(r)}
        \cup {b[i] : i \in {k \in InYear(b, y) :
                              \A j \in InYear(b, y) : Key(b[j]) = Key(b[k]) => j <= k}}

Within(d, cutoff) == cutoff = None \/ d <= cutoff

\* Mutation: no preference between the sources.
EffectiveRowsOfAnySource(R, s, cutoff) == {r \in R : r.sym = s /\ Within(r.date, cutoff)}

\* row_number() over (partition by trade_date, NSE first) = 1, up to the cutoff
EffectiveRows(R, s, cutoff) ==
    {r \in R : /\ r.sym = s
               /\ Within(r.date, cutoff)
               /\ \/ r.src = "NSE"
                  \/ ~ \E q \in R : q.sym = s /\ q.date = r.date /\ q.src = "NSE"}

\* price_basis_composition of an effective series
Basis(R) ==
    LET bases == {r.basis : r \in R}
    IN  CASE bases = {}            -> "RAW"
          [] bases = {"RAW"}       -> "RAW"
          [] bases = {"ADJUSTED"}  -> "ADJUSTED"
          [] OTHER                 -> "BLENDED"

-------------------------------------------------------------------------------
VARIABLES
    today,    \* the calendar day, which stamps ingested_at
    health,   \* each partition file: absent, ok, or torn (unreadable)
    rows,     \* the rows of each readable partition file
    lock,     \* the process with a DuckDB connection open
    pc,       \* where each writer is in append_eod_prices
    batch,    \* its incoming frame
    todo,     \* the years of the frame still to rewrite
    cur,      \* the year it is rewriting
    base,     \* existing: the rows it read from that partition
    rpc,      \* where each reader is in fetch_history
    want,     \* the symbol and the cutoff it asked for
    series,   \* what read_symbol_history returned
    basis,    \* what price_basis_composition returned
    outcome   \* how its last fetch ended

\* History variables: no action reads them to decide anything, except clash,
\* which stands for the bytes two unfinished writes left in one file.
VARIABLES
    clash,    \* partitions two writers had open at once
    ledger,   \* the rows each partition would have, had each rewrite been serial
    raced,    \* partitions rewritten while another writer held a copy of them
    acked,    \* the keys of the rows some append reported as stored
    moved     \* the readers a partition was rewritten under

fileVars == <<health, rows>>
writerVars == <<pc, batch, todo, cur, base>>
readerVars == <<rpc, want, series, basis, outcome>>
historyVars == <<clash, ledger, raced, acked, moved>>
vars == <<today, fileVars, lock, writerVars, readerVars, historyVars>>

TypeOK ==
    /\ today \in Dates
    /\ health \in [Years -> {"absent", "ok", "torn"}]
    /\ rows \in [Years -> SUBSET Row]
    /\ lock \in Writers \cup Readers \cup {NoProcess}
    /\ pc \in [Writers -> {"idle", "next", "merge", "open", "count"}]
    /\ batch \in [Writers -> Seq(Row)]
    /\ todo \in [Writers -> SUBSET Years]
    /\ cur \in [Writers -> Years]
    /\ base \in [Writers -> SUBSET Row]
    /\ rpc \in [Readers -> {"idle", "history", "between", "basis"}]
    /\ want \in [Readers -> [sym : Symbols, cutoff : Cutoffs]]
    /\ series \in [Readers -> SUBSET Row]
    /\ basis \in [Readers -> {"none", "RAW", "ADJUSTED", "BLENDED"}]
    /\ outcome \in [Readers -> {"none", "fetched", "no_data", "error"}]
    /\ clash \in SUBSET Years
    /\ ledger \in [Years -> SUBSET Row]
    /\ raced \in SUBSET Years
    /\ acked \in SUBSET (Symbols \X Dates \X Sources)
    /\ moved \in SUBSET Readers

Init ==
    /\ today = FirstDay
    /\ health = [y \in Years |-> "absent"]
    /\ rows = [y \in Years |-> {}]
    /\ lock = NoProcess
    /\ pc = [w \in Writers |-> "idle"]
    /\ batch = [w \in Writers |-> <<>>]
    /\ todo = [w \in Writers |-> {}]
    /\ cur = [w \in Writers |-> YearOf[1]]
    /\ base = [w \in Writers |-> {}]
    /\ rpc = [r \in Readers |-> "idle"]
    /\ want \in [Readers -> {[sym |-> s, cutoff |-> None] : s \in Symbols}]
    /\ series = [r \in Readers |-> {}]
    /\ basis = [r \in Readers |-> "none"]
    /\ outcome = [r \in Readers |-> "none"]
    /\ clash = {}
    /\ ledger = [y \in Years |-> {}]
    /\ raced = {}
    /\ acked = {}
    /\ moved = {}

-------------------------------------------------------------------------------
(* What the steps below share. *)

HasPartition == \E y \in Years : health[y] # "absent"

AllRows == UNION {rows[y] : y \in Years}

\* A file some writer has open reads back as a whole file or not at all.
MayFail(y) == health[y] = "torn" \/ \E w \in Writers : pc[w] = "open" /\ cur[w] = y

Holds(w, y) == pc[w] \in {"merge", "open"} /\ cur[w] = y

\* A writer's call ends, by returning or by an exception.
Leave(w) ==
    /\ pc' = [pc EXCEPT ![w] = "idle"]
    /\ batch' = [batch EXCEPT ![w] = <<>>]
    /\ todo' = [todo EXCEPT ![w] = {}]
    /\ base' = [base EXCEPT ![w] = {}]
    /\ cur' = [cur EXCEPT ![w] = YearOf[1]]

-------------------------------------------------------------------------------
(* append_eod_prices, one action per step other processes can see between. *)

Begin(w) ==
    /\ pc[w] = "idle"
    /\ \E b \in Batches(today) :
          /\ batch' = [batch EXCEPT ![w] = b]
          /\ todo' = [todo EXCEPT ![w] = YearsOf(b)]
    /\ pc' = [pc EXCEPT ![w] = "next"]
    /\ UNCHANGED <<today, fileVars, lock, cur, base, readerVars, historyVars>>

\* Mutations: the existing partition is not read; an unreadable one is taken
\* for an empty one.
ReadNoPartition(w) ==
    /\ pc[w] = "next"
    /\ \E y \in todo[w] :
          /\ \A z \in todo[w] : y <= z
          /\ cur' = [cur EXCEPT ![w] = y]
          /\ base' = [base EXCEPT ![w] = {}]
    /\ pc' = [pc EXCEPT ![w] = "merge"]
    /\ UNCHANGED <<today, fileVars, lock, batch, todo, readerVars, historyVars>>

ReadTornPartitionAsEmpty(w) ==
    /\ pc[w] = "next"
    /\ \E y \in todo[w] :
          /\ \A z \in todo[w] : y <= z
          /\ cur' = [cur EXCEPT ![w] = y]
          /\ base' = [base EXCEPT ![w] = rows[y]]
    /\ pc' = [pc EXCEPT ![w] = "merge"]
    /\ UNCHANGED <<today, fileVars, lock, batch, todo, readerVars, historyVars>>

\* The existing partition is read in year order; a missing file is an empty one.
ReadPartition(w) ==
    /\ pc[w] = "next"
    /\ \E y \in todo[w] :
          /\ \A z \in todo[w] : y <= z
          /\ health[y] # "torn"
          /\ cur' = [cur EXCEPT ![w] = y]
          /\ base' = [base EXCEPT ![w] = rows[y]]
    /\ pc' = [pc EXCEPT ![w] = "merge"]
    /\ UNCHANGED <<today, fileVars, lock, batch, todo, readerVars, historyVars>>

\* pd.read_parquet raises on a torn file, and nothing up to main catches it.
ReadPartitionFails(w) ==
    /\ pc[w] = "next"
    /\ \E y \in todo[w] : MayFail(y) /\ \A z \in todo[w] : y <= z
    /\ Leave(w)
    /\ UNCHANGED <<today, fileVars, lock, readerVars, historyVars>>

\* to_parquet truncates the partition in place.
OpenPartition(w) ==
    /\ pc[w] = "merge"
    /\ LET y == cur[w]
           shared == \E v \in Writers : pc[v] = "open" /\ cur[v] = y
       IN  /\ health' = [health EXCEPT ![y] = "torn"]
           /\ rows' = [rows EXCEPT ![y] = {}]
           /\ clash' = IF shared THEN clash \cup {y} ELSE clash \ {y}
    /\ pc' = [pc EXCEPT ![w] = "open"]
    /\ UNCHANGED <<today, lock, batch, todo, cur, base, readerVars, ledger, raced, acked, moved>>

\* ... and completes it, unless another writer's bytes got between its own.
ClosePartition(w) ==
    /\ pc[w] = "open"
    /\ LET y == cur[w]
       IN  /\ \/ /\ health' = [health EXCEPT ![y] = "ok"]
                 /\ rows' = [rows EXCEPT ![y] = Upsert(base[w], batch[w], y)]
              \/ /\ y \in clash
                 /\ health' = [health EXCEPT ![y] = "torn"]
                 /\ rows' = [rows EXCEPT ![y] = {}]
           /\ todo' = [todo EXCEPT ![w] = todo[w] \ {y}]
           /\ ledger' = [ledger EXCEPT ![y] = Upsert(ledger[y], batch[w], y)]
           /\ raced' = IF \E v \in Writers \ {w} : Holds(v, y)
                         THEN raced \cup {y} ELSE raced
    /\ pc' = [pc EXCEPT ![w] = "next"]
    /\ base' = [base EXCEPT ![w] = {}]
    /\ moved' = moved \cup {r \in Readers : rpc[r] \in {"between", "basis"}}
    /\ UNCHANGED <<today, lock, batch, cur, readerVars, clash, acked>>

\* An empty frame on an empty store returns 0 without a connection.
ReturnZero(w) ==
    /\ pc[w] = "next" /\ todo[w] = {}
    /\ ~ HasPartition
    /\ acked' = acked \cup {Key(batch[w][i]) : i \in DOMAIN batch[w]}
    /\ Leave(w)
    /\ UNCHANGED <<today, fileVars, lock, readerVars, clash, ledger, raced, moved>>

ConnectToCount(w) ==
    /\ pc[w] = "next" /\ todo[w] = {}
    /\ HasPartition
    /\ lock = NoProcess
    /\ lock' = w
    /\ pc' = [pc EXCEPT ![w] = "count"]
    /\ UNCHANGED <<today, fileVars, batch, todo, cur, base, readerVars, historyVars>>

\* Mutation: duckdb.connect waits for the lock.
ConnectToCountWaits(w) == FALSE

\* duckdb.connect raises at once when another process has the file: the rows
\* are stored, the run does not say so.
ConnectToCountFails(w) ==
    /\ pc[w] = "next" /\ todo[w] = {}
    /\ HasPartition
    /\ lock # NoProcess
    /\ Leave(w)
    /\ UNCHANGED <<today, fileVars, lock, readerVars, historyVars>>

\* The count over every partition, and the return that reports the append.
CountRows(w) ==
    /\ pc[w] = "count"
    /\ \A y \in Years : health[y] # "torn"
    /\ acked' = acked \cup {Key(batch[w][i]) : i \in DOMAIN batch[w]}
    /\ lock' = NoProcess
    /\ Leave(w)
    /\ UNCHANGED <<today, fileVars, readerVars, clash, ledger, raced, moved>>

CountRowsFails(w) ==
    /\ pc[w] = "count"
    /\ \E y \in Years : MayFail(y)
    /\ lock' = NoProcess
    /\ Leave(w)
    /\ UNCHANGED <<today, fileVars, readerVars, historyVars>>

\* The process dies: the operating system drops its lock, and a file it was
\* writing stays as far as it got.
Interrupt(w) ==
    /\ pc[w] # "idle"
    /\ lock' = IF lock = w THEN NoProcess ELSE lock
    /\ \/ UNCHANGED fileVars
       \/ /\ pc[w] = "open"
          /\ health' = [health EXCEPT ![cur[w]] = "torn"]
          /\ rows' = [rows EXCEPT ![cur[w]] = {}]
    /\ Leave(w)
    /\ UNCHANGED <<today, readerVars, historyVars>>

-------------------------------------------------------------------------------
(* fetch_history: two reads, each with a connection of its own. *)

\* An empty store answers None before it connects.
FetchFromEmptyStore(r) ==
    /\ rpc[r] = "idle"
    /\ ~ HasPartition
    /\ \E s \in Symbols, c \in Cutoffs : want' = [want EXCEPT ![r] = [sym |-> s, cutoff |-> c]]
    /\ series' = [series EXCEPT ![r] = {}]
    /\ basis' = [basis EXCEPT ![r] = "none"]
    /\ outcome' = [outcome EXCEPT ![r] = "no_data"]
    /\ UNCHANGED <<today, fileVars, lock, writerVars, rpc, historyVars>>

ConnectForHistory(r) ==
    /\ rpc[r] = "idle"
    /\ HasPartition
    /\ \E s \in Symbols, c \in Cutoffs : want' = [want EXCEPT ![r] = [sym |-> s, cutoff |-> c]]
    /\ series' = [series EXCEPT ![r] = {}]
    /\ basis' = [basis EXCEPT ![r] = "none"]
    /\ moved' = moved \ {r}
    /\ \/ /\ lock = NoProcess
          /\ lock' = r
          /\ rpc' = [rpc EXCEPT ![r] = "history"]
          /\ outcome' = [outcome EXCEPT ![r] = "none"]
       \/ /\ lock # NoProcess
          /\ outcome' = [outcome EXCEPT ![r] = "error"]
          /\ UNCHANGED <<lock, rpc>>
    /\ UNCHANGED <<today, fileVars, writerVars, clash, ledger, raced, acked>>

\* read_symbol_history; an empty frame is None, and fetch_history stops there.
QueryHistory(r) ==
    /\ rpc[r] = "history"
    /\ \A y \in Years : health[y] # "torn"
    /\ LET found == EffectiveRows(AllRows, want[r].sym, want[r].cutoff)
       IN  /\ series' = [series EXCEPT ![r] = found]
           /\ rpc' = [rpc EXCEPT ![r] = IF found = {} THEN "idle" ELSE "between"]
           /\ outcome' = [outcome EXCEPT ![r] = IF found = {} THEN "no_data" ELSE "none"]
    /\ lock' = NoProcess
    /\ UNCHANGED <<today, fileVars, writerVars, want, basis, historyVars>>

ConnectForBasis(r) ==
    /\ rpc[r] = "between"
    /\ lock = NoProcess
    /\ lock' = r
    /\ rpc' = [rpc EXCEPT ![r] = "basis"]
    /\ UNCHANGED <<today, fileVars, writerVars, want, series, basis, outcome, historyVars>>

ConnectForBasisFails(r) ==
    /\ rpc[r] = "between"
    /\ lock # NoProcess
    /\ rpc' = [rpc EXCEPT ![r] = "idle"]
    /\ outcome' = [outcome EXCEPT ![r] = "error"]
    /\ UNCHANGED <<today, fileVars, lock, writerVars, want, series, basis, historyVars>>

\* Mutation: the composition counts every row stored, superseded ones too.
QueryBasisOfAllRows(r) ==
    /\ rpc[r] = "basis"
    /\ \A y \in Years : health[y] # "torn"
    /\ basis' = [basis EXCEPT ![r] =
                    Basis({a \in AllRows : a.sym = want[r].sym /\ Within(a.date, want[r].cutoff)})]
    /\ rpc' = [rpc EXCEPT ![r] = "idle"]
    /\ outcome' = [outcome EXCEPT ![r] = "fetched"]
    /\ lock' = NoProcess
    /\ UNCHANGED <<today, fileVars, writerVars, want, series, historyVars>>

\* price_basis_composition, which queries the store again.
QueryBasis(r) ==
    /\ rpc[r] = "basis"
    /\ \A y \in Years : health[y] # "torn"
    /\ basis' = [basis EXCEPT ![r] =
                    Basis(EffectiveRows(AllRows, want[r].sym, want[r].cutoff))]
    /\ rpc' = [rpc EXCEPT ![r] = "idle"]
    /\ outcome' = [outcome EXCEPT ![r] = "fetched"]
    /\ lock' = NoProcess
    /\ UNCHANGED <<today, fileVars, writerVars, want, series, historyVars>>

\* A query raises when any partition is unreadable; finally closes it.
QueryFails(r) ==
    /\ rpc[r] \in {"history", "basis"}
    /\ \E y \in Years : MayFail(y)
    /\ lock' = NoProcess
    /\ rpc' = [rpc EXCEPT ![r] = "idle"]
    /\ outcome' = [outcome EXCEPT ![r] = "error"]
    /\ UNCHANGED <<today, fileVars, writerVars, want, series, basis, historyVars>>

InterruptReader(r) ==
    /\ rpc[r] # "idle"
    /\ lock' = IF lock = r THEN NoProcess ELSE lock
    /\ rpc' = [rpc EXCEPT ![r] = "idle"]
    /\ UNCHANGED <<today, fileVars, writerVars, want, series, basis, outcome, historyVars>>

-------------------------------------------------------------------------------
\* The calendar moves on.
NextDay ==
    /\ today < MaxDate
    /\ today' = today + 1
    /\ UNCHANGED <<fileVars, lock, writerVars, readerVars, historyVars>>

WriterStep(w) ==
    \/ ReadPartition(w) \/ ReadPartitionFails(w)
    \/ OpenPartition(w) \/ ClosePartition(w)
    \/ ReturnZero(w)
    \/ ConnectToCount(w) \/ ConnectToCountFails(w)
    \/ CountRows(w) \/ CountRowsFails(w)

ReaderStep(r) ==
    \/ QueryHistory(r)
    \/ ConnectForBasis(r) \/ ConnectForBasisFails(r)
    \/ QueryBasis(r) \/ QueryFails(r)

Next ==
    \/ \E w \in Writers : Begin(w) \/ WriterStep(w) \/ Interrupt(w)
    \/ \E r \in Readers : FetchFromEmptyStore(r) \/ ConnectForHistory(r)
                            \/ ReaderStep(r) \/ InterruptReader(r)
    \/ NextDay

Spec == Init /\ [][Next]_vars

\* A call that began keeps running; nobody has to start one, die or wait.
Fairness ==
    /\ \A w \in Writers : WF_vars(WriterStep(w))
    /\ \A r \in Readers : WF_vars(ReaderStep(r))

FairSpec == Spec /\ Fairness

-------------------------------------------------------------------------------
(* Properties. *)

UniqueKeys(R) == \A r, q \in R : Key(r) = Key(q) => r = q

\* Every partition, and every copy of one a writer holds, has rows of its own
\* year only and one row per (nse_symbol, trade_date, source)
\* (storage.py:141-145): a re-ingested session overwrites, never doubles up.
PartitionsWellFormed ==
    /\ \A y \in Years : UniqueKeys(rows[y]) /\ \A r \in rows[y] : YearOf[r.date] = y
    /\ \A w \in Writers : /\ UniqueKeys(base[w])
                          /\ pc[w] \in {"merge", "open"} =>
                                \A r \in base[w] : YearOf[r.date] = cur[w]

\* No update is lost: as long as no rewrite of a year overlapped another, its
\* readable partition is what the same appends one after the other would have
\* left, whatever died between or during them; and a missing file never was
\* written (the read-modify-write of storage.py:154-166).
NoLostUpdate ==
    \A y \in Years \ raced :
        /\ health[y] = "ok" => rows[y] = ledger[y]
        /\ health[y] = "absent" => ledger[y] = {}

\* What an append reported as stored stays stored: each acknowledged row has a
\* row of its key on disk, unless its partition is torn or its rewrite was
\* overlapped (storage.py:140-175, ingestion.py:112-128).
AckedRowsStored ==
    \A k \in acked :
        LET y == YearOf[k[2]]
        IN  \/ y \in raced
            \/ health[y] = "torn"
            \/ health[y] = "ok" /\ k \in Keys(rows[y])

\* A history that was returned has one row per trade date, only the symbol's
\* own rows, none after the cutoff (storage.py:177-216): a replay as of a date
\* has no look-ahead.
FetchedSeriesSound ==
    \A r \in Readers :
        /\ \A a, b \in series[r] : a.date = b.date => a = b
        /\ \A a \in series[r] : a.sym = want[r].sym /\ Within(a.date, want[r].cutoff)

\* The price basis reported with a history is the basis of that history, as
\* long as no partition was rewritten between the two reads
\* (nse_eod.py:211-214, asof_provider.py:37-40).
BasisDescribesSeries ==
    \A r \in Readers :
        outcome[r] = "fetched" /\ r \notin moved => basis[r] = Basis(series[r])

\* A date NSE covers never falls back to a bootstrap row: a history shows NSE's
\* row for every session whose append was acknowledged before it was read,
\* unless a rewrite of its year was overlapped (storage.py:21-27, 191-216).
AckedSessionsShown ==
    [][\A r \in Readers : QueryHistory(r) =>
          \A k \in acked :
              /\ k[1] = want[r].sym
              /\ Within(k[2], want[r].cutoff)
              /\ k[3] = "NSE"
              /\ YearOf[k[2]] \notin raced
              => \E a \in series'[r] : a.date = k[2] /\ a.src = "NSE"]_vars

Readable == \A y \in Years : health[y] = "ok" \/ health[y] = "absent"

\* Ingesting later sessions never changes a replay: when an append whose rows
\* are all after a cutoff rewrites a year that also holds earlier sessions, the
\* history every symbol has as of that cutoff is the one the writer found
\* (asof_provider.py:3-8).
ReplayIgnoresLaterSessions ==
    [][\A w \in Writers, s \in Symbols, c \in Dates :
          /\ ClosePartition(w)
          /\ \A i \in DOMAIN batch[w] : batch[w][i].date > c
          /\ health'[cur[w]] = "ok"
          => EffectiveRows(rows'[cur[w]], s, c) = EffectiveRows(base[w], s, c)]_vars

\* Every append and every fetch returns: duckdb.connect raises instead of waiting
\* for the lock, so no process waits for another, a fetch between its two
\* connections included (storage.py:137-138, 170-175, nse_eod.py:211-214).
CallsReturn ==
    /\ \A w \in Writers : pc[w] # "idle" ~> pc[w] = "idle"
    /\ \A r \in Readers : rpc[r] # "idle" ~> rpc[r] = "idle"

\* With one writer the store implements EodLedger.  While a partition is open
\* its book is still the copy the writer read; torn with no writer, it is lost.
OpenAt(y) == {w \in Writers : pc[w] = "open" /\ cur[w] = y}

Book == [y \in Years |->
            IF OpenAt(y) # {} THEN base[CHOOSE w \in OpenAt(y) : TRUE] ELSE rows[y]]

Standing == [y \in Years |->
                IF OpenAt(y) # {}
                THEN IF Book[y] = {} THEN "empty" ELSE "published"
                ELSE CASE health[y] = "absent" -> "empty"
                       [] health[y] = "ok"     -> "published"
                       [] health[y] = "torn"   -> "lost"]

Ledger == INSTANCE EodLedger
            WITH KeyOf <- Key, standing <- Standing, book <- Book

\* Programs run one after the other get the ledger's promises, whatever dies:
\* years published whole and one at a time, no key ever dropped, a lost year
\* never restarted from nothing (storage.py:154-166).
ImplementsLedger == Ledger!Spec

-------------------------------------------------------------------------------
(* What the documentation says, and the code does not keep. *)

\* The basis "reflects what read_symbol_history actually returned"
\* (storage.py:219-221).
BasisReflectsReturned ==
    \A r \in Readers : outcome[r] = "fetched" => basis[r] = Basis(series[r])

===============================================================================
