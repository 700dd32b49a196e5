------------------------------ MODULE SymbolScan ------------------------------
(***************************************************************************)
(* One security as both programs see it: its history grows by a bar a      *)
(* session, run_scan (pipeline/scan.py) validates the bars, builds the      *)
(* features and judges the last row each session, and the research          *)
(* programs build the same features over the bars as stored, without index. *)
(***************************************************************************)
EXTENDS Indicators

CONSTANTS
    MinRows,     \* history.min_rows_primary
    MaxBars,     \* bound: the sessions of a behaviour
    Candles,     \* the bars a session may bring, but for the day
    Gaps,        \* the days from a session to the next
    Benchmarks,  \* the index histories, by row; without rows: no benchmark
    Filters,     \* the sets of optional filters a configuration enables
    MaxAtr       \* filters.atr_overshoot_max, in tenths

ASSUME ScanAssumption ==
    /\ MinRows \in Nat \ {0}
    /\ MaxBars \in Nat
    /\ Gaps \subseteq Nat \ {0}
    /\ Candles \subseteq [open : Int, high : Int, low : Int, close : Int, volume : Int]

VARIABLES
    history,   \* the bars of the store, by day
    index,     \* the benchmark's rows
    enabled,   \* the optional filters that are on
    verdicts   \* the fields of each session's Diagnostics row

symbolVars == <<history, index, enabled, verdicts>>

\* The rows validate_and_clean_ohlc keeps.
Valid(bar) ==
    /\ bar.open > 0 /\ bar.high > 0 /\ bar.low > 0 /\ bar.close > 0
    /\ bar.high >= Max({bar.low, bar.open, bar.close})
    /\ bar.low <= Min({bar.open, bar.close})
    /\ bar.volume >= 0

\* The bars among the first n that are kept, in order.
Clean(bars) ==
    LET kept[n \in 0 .. Len(bars)] ==
            IF n = 0 THEN << >>
            ELSE IF Valid(bars[n]) THEN Append(kept[n - 1], bars[n]) ELSE kept[n - 1]
    IN kept[Len(bars)]

\* apply_optional_filters: every check wants the value it reads to be there.
Checks(bars, bench, t) ==
    LET c == Closes(bars)
    IN [trend |-> AboveTrend(c, t),
        volume |-> VolumeConfirms(bars, t),
        bandwidth |-> WidthExpands(c, t),
        atr |-> OvershootAtrAtMost(bars, t, MaxAtr),
        candle |-> ClosesHigh(bars[t]),
        strength |-> Outperforms(bars, bench, t),
        regime |-> Bullish(bars, bench, t),
        fresh |-> BreakoutType(c, t) = "FRESH_BREAKOUT"]

OptionalPass(bars, t) == \A f \in enabled : Checks(bars, index, t)[f]

\* Score_Status: every weighted component has its value.  The volatility one
\* negates None where BB_Overshoot_ATR is NaN, which ends in an exception.
ScoreStatus(bars, t) ==
    IF /\ t >= TrendPeriod /\ HasVolumeRatio(bars, t) /\ HasClv(bars[t])
       /\ HasRs(bars, index, t)
    THEN "FULL" ELSE "PARTIAL"

\* What the columns of a row show without a benchmark, as the integers that
\* determine them.
Columns(bars, t) ==
    LET c == Closes(bars)
    IN [close |-> c[t],
        mean |-> SumOver(c, RollingRows(t, BbPeriod)),
        spread |-> Spread(c, t),
        haOpen |-> HaOpen(bars)[t],
        haClose |-> HaCloseOf(bars[t]),
        atr |-> Wilder(bars)[t],
        volume |-> bars[t].volume,
        ratio |-> HasVolumeRatio(bars, t),
        trend |-> SumOver(c, RollingRows(t, TrendPeriod)),
        type |-> BreakoutType(c, t),
        days |-> DaysAbove(c, t)]

\* The columns against the benchmark: RS_20D is there, and the day's regime.
AgainstIndex(bars, bench, t) ==
    [strength |-> HasRs(bars, bench, t),
     regime |-> {Regime(bench, u) : u \in RowOn(bench, bars[t].day)}]

\* _feature_fields: what a Diagnostics row shows of the row it was judged by.
FeatureFields(bars, t) ==
    [columns |-> Columns(bars, t),
     benchmark |-> AgainstIndex(bars, index, t),
     labels |-> Labels(bars)]

\* A row without features has none of its fields set.
Row(signal, why, optional, score, features) ==
    [signal |-> signal, why |-> why, optional |-> optional, score |-> score,
     features |-> features]

\* _strategy_gate_failure_reason, "none" for a signal.
GateFailure(bars, t) ==
    LET c == Closes(bars)
    IN CASE ~IsAbove(c, t) -> "CLOSE_NOT_ABOVE_UPPER_BB"
         [] IsAbove(c, t) /\ ~OvershootAtMost(c, t, MaxOvershoot) -> "BB_OVERSHOOT_OUT_OF_RANGE"
         [] Passes(bars, t) -> "none"
         [] OTHER -> "HA_BODY_TOO_SMALL"

\* The body of run_scan's loop, for this symbol.  wilder_atr writes its seed past
\* the end of a series of exactly its period, so that there are no features;
\* scoring raises once there are.
Judge(bars) ==
    LET clean == Clean(bars)
        t == Len(clean)
        judged(signal, why, score) ==
            Row(signal, why, OptionalPass(clean, t), score, {FeatureFields(clean, t)})
    IN CASE t < MinRows -> Row(FALSE, "INSUFFICIENT_HISTORY", FALSE, "none", {})
         [] t >= MinRows /\ t = AtrPeriod -> Row(FALSE, "SECURITY_SCAN_FAILURE", FALSE, "none", {})
         [] t >= MinRows /\ t # AtrPeriod /\ ~HasOvershootAtr(clean, t) ->
               judged(FALSE, "SECURITY_SCAN_FAILURE", "none")
         [] OTHER -> judged(Passes(clean, t), GateFailure(clean, t), ScoreStatus(clean, t))

SymbolInit ==
    /\ history = << >>
    /\ index \in Benchmarks
    /\ enabled \in Filters
    /\ verdicts = << >>

LastDay == IF history = << >> THEN 0 ELSE history[Len(history)].day

\* A session's bar is ingested, and the day's scan reaches the symbol.
Session ==
    /\ Len(history) < MaxBars
    /\ \E candle \in Candles, gap \in Gaps :
          LET bars == Append(history,
                             [open |-> candle.open, high |-> candle.high, low |-> candle.low,
                              close |-> candle.close, volume |-> candle.volume,
                              day |-> LastDay + gap])
          IN /\ history' = bars
             /\ verdicts' = Append(verdicts, Judge(bars))
    /\ UNCHANGED <<index, enabled>>

SymbolSpec == SymbolInit /\ [][Session]_symbolVars

(***************************************************************************)
(* Properties.                                                             *)
(***************************************************************************)
\* The research programs pass build_feature_frame no index.
NoBenchmark == << >>

\* A row of build_feature_frame over the stored bars, but for its labels, and the
\* filters' checks of it.
FrameRow(bench, t) ==
    [columns |-> Columns(history, t),
     benchmark |-> AgainstIndex(history, bench, t),
     extension |-> ExtensionClass(Closes(history), t),
     checks |-> Checks(history, bench, t)]

WeeklyBars == [w \in CompletedWeeks(history, LastDay) |-> WeeklyBar(history, w)]

\* One set of labels says no less of the history than another.
NoWorse(new, old) ==
    /\ \A f \in {"sma20", "sma50", "sma200"} : old[f] = "OK" => new[f] = "OK"
    /\ new.quality = "VERY_LIMITED" => old.quality = "VERY_LIMITED"
    /\ old.quality = "FULL" => new.quality = "FULL"

(* tests/unit/test_lookahead.py, for every history: a later bar changes no  *)
(* column of an earlier row that is computed row by row, with the scan's    *)
(* index or with none, nor a weekly bar that was complete, unless it is a   *)
(* weekend session of that week (latest_completed_weekly_bar).  The columns *)
(* build_feature_frame sets on all rows from their number (History_Quality, *)
(* SMA20_Status, SMA50_Status, SMA200_Status; N_Rows_Available, the number) *)
(* are not of these: a later bar does change them on every earlier row, but *)
(* never to less history than before.                                       *)
NoLookAhead ==
    [][/\ \A bench \in {NoBenchmark, index} : \A t \in DOMAIN history :
             FrameRow(bench, t)' = FrameRow(bench, t)
       /\ \A w \in DOMAIN WeeklyBars :
             LastDay' <= Friday(w) \/ Week(LastDay') > w => WeeklyBars'[w] = WeeklyBars[w]
       /\ NoWorse(Labels(history'), Labels(history))]_symbolVars

(* The study, which evaluates the condition over whole columns and never    *)
(* validates its bars, finds on a history that validation leaves alone the  *)
(* signals the scanner found session by session, on every row the scanner   *)
(* would judge (evaluate_mandatory_vectorized against run_scan).  Of what a *)
(* scan reported of a row (_feature_fields) the study has the same columns, *)
(* but not the benchmark's, which it builds without (run_research.py:74,    *)
(* run_walk_forward.py:115); and its labels are the whole history's, which  *)
(* may promise the row more history than the scan had (features.py:61).     *)
StudyFindsScannedSignals ==
    Clean(history) = history =>
        \A t \in MinRows .. Len(history) :
            /\ verdicts[t].signal <=> t \in MandatoryRows(history)
            /\ \A f \in verdicts[t].features :
                  /\ f.columns = Columns(history, t)
                  /\ NoWorse(Labels(history), f.labels)

(* A signal is never lost in scoring: with more rows than the ATR needs to   *)
(* start, a close above its band has a positive ATR, so the score that       *)
(* raises on a missing one (calculate_research_heuristic_score) is not asked *)
(* for it; where a scan does end so, no close has moved.                     *)
SignalsScored ==
    \A k \in DOMAIN verdicts :
        LET clean == Clean(SubSeq(history, 1, k))
            t == Len(clean)
        IN t >= MinRows =>
             /\ IsAbove(Closes(clean), t) => verdicts[k].why # "SECURITY_SCAN_FAILURE"
             /\ verdicts[k].why = "SECURITY_SCAN_FAILURE" =>
                   \A u, v \in DOMAIN clean : clean[u].close = clean[v].close

=============================================================================
