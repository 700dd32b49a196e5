---------------------------- MODULE YahooHistory ----------------------------
(***************************************************************************)
(* What the scanner takes from Yahoo Finance.  A bootstrap                 *)
(* (cli/bootstrap_history.py) downloads the history of the universe in     *)
(* batches (data/yfinance_provider.py), keeps what validates and hands it  *)
(* to the store; a scan asks for one index up to its session               *)
(* (data/benchmark.py).  Yahoo Finance may fail, answer nothing, answer in *)
(* any shape, leave tickers out, repeat dates and ignore the range asked.  *)
(***************************************************************************)
EXTENDS YahooFrames, SequencesExt

CONSTANTS
    Universes,       \* the universes the provider may return, sequences of symbols
    Overrides,       \* the override table: another name for some symbols, a function
    Index,           \* cfg.benchmark.index_ticker
    Cutoffs,         \* the as_of_date a benchmark may be given
    NoCutoff,        \* as_of_date is None
    BatchSize,       \* cfg.data.batch_size
    MaxRetries,      \* cfg.data.max_download_retries
    MinRowsPrimary,  \* cfg.history.min_rows_primary
    Names,           \* the tickers an answer may have for the index; Index stands
                     \* for every name that is its own but for case and blanks
    Sent             \* the rows Yahoo may send of a ticker, sequences

ASSUME YahooAssumption ==
    /\ BatchSize \in Nat \ {0}
    /\ MaxRetries \in Nat
    /\ MinRowsPrimary \in Nat
    /\ \A u \in Universes : u \in Seq(ToSet(u)) /\ IsInjective(u)
    /\ \A rows \in Sent : rows \in Seq(ToSet(rows))

\* None is no frame.
ASSUME NoFrameAssumption ==
    \A rows \in Sent :
        /\ \A bars \in SUBSET ToSet(rows) : NoFrame # bars
        /\ \A kept \in SUBSET DOMAIN rows : NoFrame # Restrict(rows, kept)

VARIABLES
    phase,       \* universe, download, extract, store or benchmark; done at the end,
                 \* failed when the store raised
    universe,    \* constituents["Symbol"]
    batch,       \* i: the tickers of the batches before this one
    attempt,     \* the attempts this batch has made
    data,        \* what the download of this batch returned
    sent,        \* what Yahoo has sent of each ticker: [ticker, answer, size]
    results,     \* fetch_history_batch's results: rows by ticker
    errors,      \* fetch_history_batch's errors: the tickers it has none for
    appended,    \* the rows append_eod_prices returned from storing, by symbol
    report,      \* the lists of the coverage report
    cutoff,      \* as_of_date of the benchmark
    benchmark,   \* what fetch_benchmark returned, a frame or NoFrame
    code         \* the exit code

vars == <<phase, universe, batch, attempt, data, sent, results, errors, appended,
          report, cutoff, benchmark, code>>

NoReport == [populated |-> {}, insufficient |-> {}, failed |-> {}, invalid |-> {}]

Init ==
    /\ phase \in {"universe", "benchmark"}
    /\ universe = << >> /\ batch = 0 /\ attempt = 0
    /\ data = NoFrame
    /\ sent = {} /\ results = << >> /\ errors = {} /\ appended = << >>
    /\ report = NoReport
    /\ cutoff \in Cutoffs
    /\ benchmark = NoFrame
    /\ code = 0

\* map_symbol_to_yfinance: the name of a member, or the one the table has for it
\* (none without a file), with Yahoo's suffix.
Yahoo(s) == <<IF s \in DOMAIN Overrides THEN Overrides[s] ELSE s, ".NS">>

(***************************************************************************)
(* The tickers of the universe, and the member a ticker is taken for: the  *)
(* last that maps to it, when several do (yf_to_nse).                      *)
(***************************************************************************)
Tickers == [i \in DOMAIN universe |-> Yahoo(universe[i])]

Symbol(t) == universe[CHOOSE i \in DOMAIN universe :
                        /\ Tickers[i] = t
                        /\ \A j \in DOMAIN universe : Tickers[j] = t => j <= i]

\* Mutation: a ticker is skipped between two batches.
GappedBatch == BatchSize + 1

BatchStep == BatchSize

\* symbols[i : i + batch_size]
Chunk == SubSeq(Tickers, batch + 1,
                IF batch + BatchSize < Len(Tickers) THEN batch + BatchSize
                ELSE Len(Tickers))

NextPhase(next) == IF next < Len(Tickers) THEN "download" ELSE "store"

(***************************************************************************)
(* The bootstrap.                                                          *)
(***************************************************************************)
UniverseFails ==
    /\ phase = "universe"
    /\ phase' = "done"
    /\ code' = 1
    /\ UNCHANGED <<universe, batch, attempt, data, sent, results, errors, appended,
                   report, cutoff, benchmark>>

GetConstituents ==
    /\ phase = "universe"
    /\ \E u \in Universes :
          /\ universe' = u
          /\ phase' = IF u = << >> THEN "store" ELSE "download"
    /\ UNCHANGED <<batch, attempt, data, sent, results, errors, appended, report,
                   cutoff, benchmark, code>>

\* The tables Yahoo may return for these tickers; plain columns name no ticker,
\* and are those of the only ticker that was found.
Answers(shapes, tickers) ==
    {answer \in [shape : shapes, fields : Fields,
                 columns : UNION {[S -> Sent] : S \in SUBSET tickers}] :
        answer.shape = "plain" => Cardinality(DOMAIN answer.columns) <= 1}

Download ==
    /\ phase = "download"
    /\ \E answer \in Answers(Shapes \ {"other"}, ToSet(Chunk)) :
          /\ data' = answer
          /\ sent' = sent \cup {[ticker |-> t, answer |-> answer, size |-> Len(Chunk)] :
                                t \in DOMAIN answer.columns}
    /\ phase' = "extract"
    /\ attempt' = 0
    /\ UNCHANGED <<universe, batch, results, errors, appended, report, cutoff,
                   benchmark, code>>

\* The download raises with attempts left.
Retry ==
    /\ phase = "download"
    /\ attempt < MaxRetries
    /\ attempt' = attempt + 1
    /\ UNCHANGED <<phase, universe, batch, data, sent, results, errors, appended,
                   report, cutoff, benchmark, code>>

\* The last attempt raises, or one returns None: no ticker of the batch has data.
BatchFails ==
    /\ phase = "download"
    /\ errors' = errors \cup ToSet(Chunk)
    /\ batch' = batch + BatchStep
    /\ phase' = NextPhase(batch')
    /\ attempt' = 0
    /\ UNCHANGED <<universe, data, sent, results, appended, report, cutoff,
                   benchmark, code>>

ExtractSymbols ==
    /\ phase = "extract"
    /\ LET frame == [t \in ToSet(Chunk) |-> ExtractSymbolFrame(data, t, Len(Chunk))]
           found == {t \in ToSet(Chunk) : frame[t] # NoFrame}
       IN /\ results' = [t \in DOMAIN results \cup found |->
                            IF t \in found THEN frame[t] ELSE results[t]]
          /\ errors' = errors \cup (ToSet(Chunk) \ found)
    /\ batch' = batch + BatchStep
    /\ phase' = NextPhase(batch')
    /\ data' = NoFrame
    /\ UNCHANGED <<universe, attempt, sent, appended, report, cutoff, benchmark, code>>

\* Everything that validates goes to the store in one append; the exit code is 0
\* when that is anything.
Store ==
    /\ phase = "store"
    /\ LET clean == [t \in DOMAIN results |-> ValidateAndClean(results[t], 1)]
           valid == {t \in DOMAIN results : clean[t] # NoFrame}
           of(T) == {Symbol(t) : t \in T}
       IN /\ appended' = [s \in of(valid) |-> clean[Yahoo(s)]]
          /\ report' = [populated |-> of(valid),
                        insufficient |-> of({t \in valid :
                                              Cardinality(clean[t]) < MinRowsPrimary}),
                        failed |-> of(errors),
                        invalid |-> of(DOMAIN results \ valid)]
          /\ code' = IF valid = {} THEN 1 ELSE 0
    /\ phase' = "done"
    /\ UNCHANGED <<universe, batch, attempt, data, sent, results, errors, cutoff,
                   benchmark>>

\* append_eod_prices raises, and nothing catches it: no report is printed.  What
\* the store then holds is for EodStore to say.
StoreFails ==
    /\ phase = "store"
    /\ \E t \in DOMAIN results : ValidateAndClean(results[t], 1) # NoFrame
    /\ phase' = "failed"
    /\ code' = 1
    /\ UNCHANGED <<universe, batch, attempt, data, sent, results, errors, appended,
                   report, cutoff, benchmark>>

(***************************************************************************)
(* The benchmark of a scan.                                                *)
(***************************************************************************)
\* Mutation: the range asked for is trusted.
WithinRequest(rows) == rows

WithinCutoff(rows) ==
    IF cutoff = NoCutoff THEN rows ELSE {r \in rows : r.date <= cutoff}

FetchBenchmark ==
    /\ phase = "benchmark"
    /\ \E answer \in Answers(Shapes, Names) :
          LET rows == NormalizeTickerFrame(answer, Index)
          IN /\ data' = answer
             /\ benchmark' = IF rows = NoFrame \/ WithinCutoff(rows) = {} THEN NoFrame
                             ELSE WithinCutoff(rows)
    /\ phase' = "done"
    /\ UNCHANGED <<universe, batch, attempt, sent, results, errors, appended, report,
                   cutoff, code>>

\* The download raises: (None, message).
BenchmarkFails ==
    /\ phase = "benchmark"
    /\ phase' = "done"
    /\ UNCHANGED <<universe, batch, attempt, data, sent, results, errors, appended,
                   report, cutoff, benchmark, code>>

Next ==
    \/ UniverseFails \/ GetConstituents
    \/ Download \/ Retry \/ BatchFails \/ ExtractSymbols
    \/ Store \/ StoreFails
    \/ FetchBenchmark \/ BenchmarkFails

Spec == Init /\ [][Next]_vars

(***************************************************************************)
(* Properties                                                              *)
(***************************************************************************)
Shared(s) == \E i \in DOMAIN universe : universe[i] # s /\ Tickers[i] = Yahoo(s)

Member(s) == \E i \in DOMAIN universe : universe[i] = s

\* The coverage report counts each member of the universe once: populated, failed
\* to download or failed to validate.  A member whose Yahoo symbol another member
\* has as well is not claimed: one of the two is in no list, and the other may be
\* in two of them.  Nothing outside the universe is in any list.
CoverageAddsUp ==
    LET lists == <<report.populated, report.failed, report.invalid>>
    IN phase = "done" =>
         /\ \A s \in ToSet(universe) :
               ~Shared(s) => Cardinality({n \in 1 .. 3 : s \in lists[n]}) = 1
         /\ \A n \in 1 .. 3 : \A s \in lists[n] : Member(s)
         /\ report.insufficient \subseteq report.populated

\* The history stored under a symbol is what Yahoo sent for its Yahoo symbol and
\* no other's, one valid row a date, the last that came; and a valid bar of a
\* member that came in columns that name tickers, in a batch of two or more, is
\* stored unless a later row of its date came too.
HistoryIsOwn(s, x) ==
    LET rows == x.answer.columns[x.ticker]
    IN \A r \in appended[s] : \E i \in DOMAIN rows :
          /\ rows[i] = r
          /\ r.bar \in {"good", "amended"}
          /\ \A j \in DOMAIN rows :
                j > i => rows[j].date # r.date \/ rows[j].bar = "empty"

HistoryIsWhole(s, x) ==
    LET rows == x.answer.columns[x.ticker]
    IN x.size > 1 /\ x.answer.shape # "plain" /\ x.answer.fields = "all" =>
          \A i \in DOMAIN rows :
             /\ rows[i].bar \in {"good", "amended"}
             /\ \A j \in DOMAIN rows : j > i => rows[j].date # rows[i].date
             => s \in DOMAIN appended /\ rows[i] \in appended[s]

HistoryAsSent ==
    LET from(s) == {x \in sent : x.ticker = Yahoo(s)}
    IN phase = "done" =>
         /\ \A s \in DOMAIN appended : \E x \in from(s) : HistoryIsOwn(s, x)
         /\ \A s \in ToSet(universe) : ~Shared(s) => \A x \in from(s) : HistoryIsWhole(s, x)

\* A scan as of a date uses no benchmark bar of a later one, whatever Yahoo sent
\* for the range it was asked, and one bar a date: no look-ahead.
BenchmarkWithinCutoff ==
    benchmark # NoFrame =>
       /\ benchmark # {}
       /\ \A r \in benchmark :
             /\ cutoff # NoCutoff => r.date <= cutoff
             /\ \A q \in benchmark : q.date = r.date => q = r

=============================================================================
