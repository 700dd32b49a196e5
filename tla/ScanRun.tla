------------------------------- MODULE ScanRun -------------------------------
(***************************************************************************)
(* run_scan (pipeline/scan.py): one pass over the universe that gives each *)
(* member a Diagnostics row whatever happens to it, the sheets derived     *)
(* from the rows, and RUN_HEALTH from the failure counters.  The store is  *)
(* read symbol by symbol while other programs append to it (DailyRun), so  *)
(* each fetch may find any last bar, none, or an error.                    *)
(***************************************************************************)
EXTENDS TradingDays, Sequences

CONSTANTS
    Universe,      \* the constituents, in the provider's order
    Expected,      \* session.expected_completed_session
    BarDates,      \* the dates last bars have
    Holidays,      \* the holidays of the run
    PriceBases,    \* price bases a series may have
    ProviderBasis, \* data_provider.price_basis, for a run that fetched nothing
    RedOneIn,      \* RED above one failed member in RedOneIn (4 in the code)
    YellowOneIn    \* YELLOW above one in YellowOneIn (20 in the code)

ASSUME ScanAssumption ==
    /\ Universe \in Seq({Universe[i] : i \in DOMAIN Universe})
    /\ \A i, j \in DOMAIN Universe : Universe[i] = Universe[j] => i = j
    /\ "benchmark" \notin {Universe[i] : i \in DOMAIN Universe}
    /\ Expected \in Nat
    /\ BarDates \subseteq Nat
    /\ RedOneIn \in Nat \ {0}
    /\ YellowOneIn \in Nat \ {0}

Members == {Universe[i] : i \in DOMAIN Universe}

Mixed == "MIXED_SEE_DIAGNOSTICS"

\* Primary_Failure_Reason; Failure_Category follows from it.
Unvalidated == {"NO_DATA", "INSUFFICIENT_HISTORY", "DATA_VALIDATION_FAILURE"}
Broken == {"SANITY_GATE_FAILURE", "SECURITY_SCAN_FAILURE"}
Unmet == {"CLOSE_NOT_ABOVE_UPPER_BB", "BB_OVERSHOOT_OUT_OF_RANGE", "HA_BODY_TOO_SMALL"}

Stale == {"STALE_1_SESSION", "STALE_2_PLUS"}

\* The fields of a Diagnostics row the properties tell apart.
Row == [sym : Members,
        bar : BarDates \cup {NoDay},
        status : {"UNAVAILABLE", "CURRENT", "INVALID"} \cup Stale,
        basis : PriceBases \cup {"unset"},
        evaluated : BOOLEAN,
        signal : BOOLEAN,
        optional : BOOLEAN,
        reason : {"none"} \cup Unvalidated \cup Broken \cup Unmet]

VARIABLES
    size,         \* how many constituents the universe has
    benchmark,    \* benchmark_status
    diagnostics,  \* diagnostics_rows, one for each member the loop is past
    signals,      \* signal_rows
    observed,     \* observed_price_bases
    invalid,      \* data_validation_failures
    failed,       \* security_scan_failures
    short,        \* insufficient_history_count
    scanLog,      \* the securities with a row in Scan_Log
    stale,        \* the rows of the Stale_Signals sheet
    nStale,       \* signals_stale
    basis,        \* the run's price_basis
    health,       \* RUN_HEALTH
    bootstrap     \* needs_bootstrap

counters == <<invalid, failed, short>>
result == <<stale, nStale, basis, health, bootstrap>>
vars == <<size, benchmark, diagnostics, signals, observed, counters, scanLog, result>>

TypeOK ==
    /\ size \in 0 .. Len(Universe)
    /\ benchmark \in {"OK", "UNAVAILABLE"}
    /\ diagnostics \in Seq(Row)
    /\ Len(diagnostics) <= size
    /\ signals \in Seq(Row)
    /\ observed \subseteq PriceBases
    /\ invalid \in 0 .. size
    /\ failed \in 0 .. size
    /\ short \in 0 .. invalid
    /\ scanLog \subseteq Members \cup {"benchmark"}
    /\ stale \subseteq Row
    /\ nStale \in 0 .. size
    /\ basis \in PriceBases \cup {ProviderBasis, Mixed}
    /\ health \in {"running", "RED", "YELLOW", "GREEN"}
    /\ bootstrap \in BOOLEAN

\* The universe gate is passed and the benchmark was tried, with no effect on
\* the scan but a Scan_Log row.
Init ==
    /\ size \in 0 .. Len(Universe)
    /\ benchmark \in {"OK", "UNAVAILABLE"}
    /\ diagnostics = <<>>
    /\ signals = <<>>
    /\ observed = {}
    /\ invalid = 0
    /\ failed = 0
    /\ short = 0
    /\ scanLog = IF benchmark = "OK" THEN {} ELSE {"benchmark"}
    /\ stale = {}
    /\ nStale = 0
    /\ basis = ProviderBasis
    /\ health = "running"
    /\ bootstrap = FALSE

-------------------------------------------------------------------------------
(* The loop body, one action per way out of it. *)

InLoop == health = "running" /\ Len(diagnostics) < size

Symbol == Universe[Len(diagnostics) + 1]

\* _diagnostic_row's defaults
Blank(why) ==
    [sym |-> Symbol, bar |-> NoDay, status |-> "UNAVAILABLE", basis |-> "unset",
     evaluated |-> FALSE, signal |-> FALSE, optional |-> FALSE, reason |-> why]

\* The row once the last bar is classified, and once the three mandatory
\* conditions and the optional filters were evaluated.
Classified(bar, b, why) ==
    [Blank(why) EXCEPT !.bar = bar, !.basis = b,
                       !.status = ClassifyDataStatus(bar, Expected, Holidays)]

Evaluated(bar, b, why, optional) ==
    [Classified(bar, b, why) EXCEPT !.evaluated = TRUE, !.signal = (why = "none"),
                                    !.optional = optional]

Diagnose(row) == diagnostics' = Append(diagnostics, row)

\* fetch_history had nothing to return.
NoData ==
    /\ InLoop
    /\ Diagnose(Blank("NO_DATA"))
    /\ invalid' = invalid + 1
    /\ UNCHANGED <<size, benchmark, signals, observed, failed, short, scanLog, result>>

\* Rows there were, but too few valid ones, or without a required column.
Insufficient ==
    /\ InLoop
    /\ \E b \in PriceBases : observed' = observed \cup {b}
    /\ \E why \in Unvalidated \ {"NO_DATA"} :
          /\ Diagnose(Blank(why))
          /\ short' = IF why = "INSUFFICIENT_HISTORY" THEN short + 1 ELSE short
    /\ invalid' = invalid + 1
    /\ UNCHANGED <<size, benchmark, signals, failed, scanLog, result>>

\* A mandatory condition does not hold.
StrategyFails ==
    /\ InLoop
    /\ \E bar \in BarDates, b \in PriceBases, why \in Unmet, optional \in BOOLEAN :
          /\ Diagnose(Evaluated(bar, b, why, optional))
          /\ observed' = observed \cup {b}
    /\ UNCHANGED <<size, benchmark, signals, counters, scanLog, result>>

\* Mutation: a stale pass is a signal too.
PassesWhateverItsAge ==
    /\ InLoop
    /\ \E bar \in BarDates, b \in PriceBases, optional \in BOOLEAN :
          LET row == Evaluated(bar, b, "none", optional)
          IN  /\ Diagnose(row)
              /\ observed' = observed \cup {b}
              /\ signals' = IF optional THEN Append(signals, row) ELSE signals
    /\ UNCHANGED <<size, benchmark, counters, scanLog, result>>

Passes ==
    /\ InLoop
    /\ \E bar \in BarDates, b \in PriceBases, optional \in BOOLEAN :
          LET row == Evaluated(bar, b, "none", optional)
          IN  /\ Diagnose(row)
              /\ observed' = observed \cup {b}
              /\ signals' = IF row.status = "CURRENT" /\ optional
                              THEN Append(signals, row) ELSE signals
    /\ UNCHANGED <<size, benchmark, counters, scanLog, result>>

\* Mutation: the handler forgets the counter.
GateTripsUncounted ==
    /\ InLoop
    /\ \E bar \in BarDates, b \in PriceBases, optional \in BOOLEAN :
          /\ Diagnose(Evaluated(bar, b, "SANITY_GATE_FAILURE", optional))
          /\ observed' = observed \cup {b}
    /\ scanLog' = scanLog \cup {Symbol}
    /\ UNCHANGED <<size, benchmark, signals, counters, result>>

\* SignalMathError: the conditions were evaluated, and the row keeps them.
GateTrips ==
    /\ InLoop
    /\ \E bar \in BarDates, b \in PriceBases, optional \in BOOLEAN :
          /\ Diagnose(Evaluated(bar, b, "SANITY_GATE_FAILURE", optional))
          /\ observed' = observed \cup {b}
    /\ failed' = failed + 1
    /\ scanLog' = scanLog \cup {Symbol}
    /\ UNCHANGED <<size, benchmark, signals, invalid, short, result>>

\* Any other exception, caught for this symbol alone: in the fetch (DuckDB held
\* by a writer, a torn partition), or once as much of the row was there.
ScanRaises ==
    /\ InLoop
    /\ \/ /\ Diagnose(Blank("SECURITY_SCAN_FAILURE"))
          /\ UNCHANGED observed
       \/ \E bar \in BarDates, b \in PriceBases, optional \in BOOLEAN :
             /\ \/ Diagnose([Blank("SECURITY_SCAN_FAILURE") EXCEPT !.basis = b])
                \/ Diagnose(Classified(bar, b, "SECURITY_SCAN_FAILURE"))
                \/ Diagnose(Evaluated(bar, b, "SECURITY_SCAN_FAILURE", optional))
             /\ observed' = observed \cup {b}
    /\ failed' = failed + 1
    /\ scanLog' = scanLog \cup {Symbol}
    /\ UNCHANGED <<size, benchmark, signals, invalid, short, result>>

-------------------------------------------------------------------------------
(* After the loop *)

RowsFor(reasons) == Cardinality({i \in DOMAIN diagnostics : diagnostics[i].reason \in reasons})

\* Mutation: an unavailable benchmark is one failure more.
FailuresWithBenchmark == invalid + failed + (IF benchmark = "OK" THEN 0 ELSE 1)

Failures == invalid + failed

AtLeastOne(n) == IF n = 0 THEN 1 ELSE n

Above(oneIn) == oneIn * Failures > AtLeastOne(size)

RunHealth ==
    IF size = 0 \/ Above(RedOneIn) THEN "RED"
    ELSE IF benchmark # "OK" \/ Above(YellowOneIn) \/ failed > 0 THEN "YELLOW"
    ELSE "GREEN"

\* Mutation: the run is labelled with one of the bases it met.
AnyBasis == IF observed = {} THEN ProviderBasis ELSE CHOOSE b \in observed : TRUE

RunBasis ==
    IF observed = {} THEN ProviderBasis
    ELSE IF Cardinality(observed) = 1 THEN CHOOSE b \in observed : TRUE
    ELSE Mixed

IsStale(row) == row.status \in Stale

\* The sheets and numbers derived from the rows.  RED leaves no trace of the
\* benchmark; needs_bootstrap asks for half the universe or more.
Finish ==
    /\ health = "running"
    /\ Len(diagnostics) = size
    /\ stale' = {diagnostics[i] : i \in {k \in DOMAIN diagnostics :
                                   IsStale(diagnostics[k]) /\ diagnostics[k].signal}}
    /\ nStale' = Cardinality({i \in DOMAIN diagnostics : IsStale(diagnostics[i])})
    /\ basis' = RunBasis
    /\ health' = RunHealth
    /\ bootstrap' = (2 * short >= AtLeastOne(size))
    /\ UNCHANGED <<size, benchmark, diagnostics, signals, observed, counters, scanLog>>

\* The manifest and the EOD_Summary sheet are made of the finished run; Data_Current
\* is read back from Data_Health.
Manifest ==
    [count |-> size, basis |-> basis, status |-> health, benchmark |-> benchmark,
     invalid |-> invalid, failed |-> failed, short |-> short,
     signals |-> Len(signals), stale |-> nStale, bootstrap |-> bootstrap]

Summary ==
    [count |-> size, basis |-> basis, health |-> health, benchmark |-> benchmark,
     current |-> Cardinality({i \in DOMAIN diagnostics : diagnostics[i].status = "CURRENT"}),
     stale |-> nStale, invalid |-> invalid, failed |-> failed, short |-> short,
     signals |-> Len(signals)]

Next ==
    \/ NoData \/ Insufficient \/ StrategyFails \/ Passes \/ GateTrips \/ ScanRaises
    \/ Finish

Spec == Init /\ [][Next]_vars

-------------------------------------------------------------------------------
(* Properties *)

\* Each member the loop is past has one row, in the universe's order, and the
\* counters and Scan_Log account for exactly the rows that say so: no exception
\* of one symbol loses or doubles another's (scan.py's per-symbol isolation).
EveryMemberAccountedFor ==
    /\ \A i \in DOMAIN diagnostics : diagnostics[i].sym = Universe[i]
    /\ invalid = RowsFor(Unvalidated)
    /\ short = RowsFor({"INSUFFICIENT_HISTORY"})
    /\ failed = RowsFor(Broken)
    /\ scanLog \ {"benchmark"} =
          {diagnostics[i].sym : i \in {k \in DOMAIN diagnostics : diagnostics[k].reason \in Broken}}

\* A row of EOD_Signals met the strategy on a bar no session older and no day
\* newer than the expected one, though each symbol was read at a moment of its
\* own, and is not in Stale_Signals too.
SignalsAreCurrent ==
    \A i \in DOMAIN signals :
        LET row == signals[i]
        IN  /\ row.signal /\ row.optional
            /\ row.bar <= Expected
            /\ SessionsBetween(row.bar, Expected, Holidays) = 0
            /\ \A other \in stale : other.sym # row.sym

\* RUN_HEALTH, as the manifest's status, says what the Diagnostics rows say: RED
\* exactly when more than one member in RedOneIn got no verdict, with or without a
\* benchmark; GREEN exactly when no more than one in YellowOneIn did either, no
\* symbol broke the scan and the benchmark was there; and the summary counts no
\* member twice as current, as stale and as not validated.
HealthReflectsRows ==
    LET noVerdict == RowsFor(Unvalidated \cup Broken)
        tooMany(oneIn) == size = 0 \/ oneIn * noVerdict > size
    IN  health # "running" =>
            /\ Manifest.status = "RED" <=> tooMany(RedOneIn)
            /\ Manifest.status = "GREEN" <=>
                   /\ ~tooMany(RedOneIn) /\ ~tooMany(YellowOneIn)
                   /\ Manifest.benchmark = "OK"
                   /\ RowsFor(Broken) = 0
            /\ Summary.current + Summary.stale + Summary.invalid <= Summary.count

\* A run labelled with one price basis has no signal, stale or current, of
\* another ("price basis metadata matches reality", scan.py:575).
BasisCoversSignals ==
    (health # "running" /\ basis # Mixed) =>
        /\ \A i \in DOMAIN signals : signals[i].basis = basis
        /\ \A row \in stale : row.basis = basis

=============================================================================
