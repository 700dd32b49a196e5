------------------------------ MODULE Indicators ------------------------------
(***************************************************************************)
(* The columns of build_feature_frame (pipeline/features.py) over a         *)
(* sequence of bars, and the mandatory condition of strategy/bb_ha.py.      *)
(* Prices are integers and every comparison is exact: a column that is a    *)
(* quotient or a root is kept as the integers that determine it, and the    *)
(* comparisons with it are cleared of denominators and squared.             *)
(***************************************************************************)
EXTENDS Integers, Sequences, FiniteSets, FiniteSetsExt

CONSTANTS
    BbPeriod,      \* baseline.bb_period
    BbMult,        \* baseline.bb_std_mult
    BbDdof,        \* baseline.bb_ddof
    MaxOvershoot,  \* baseline.max_bb_overshoot_pct
    MinBody,       \* baseline.min_ha_body_pct
    AtrPeriod,     \* history.atr_period
    TrendPeriod,   \* the window of the moving average a trend filter reads
    VolumePeriod,  \* the window of Avg_Volume_20
    ReturnPeriod,  \* the span of RS_20D
    RegimeShort,   \* the windows of Index_SMA50
    RegimeLong,    \* and of Index_SMA200
    MinRowsSma20,  \* history.min_rows_sma20,
    MinRowsSma50,  \* min_rows_sma50
    MinRowsSma200, \* and min_rows_sma200
    NaN            \* a missing value

ASSUME IndicatorAssumption ==
    /\ BbDdof \in {0, 1}
    /\ BbPeriod \in Nat /\ BbPeriod > BbDdof
    /\ BbMult \in Nat /\ MinBody \in Nat
    /\ MaxOvershoot \in Nat \ {0}
    /\ {AtrPeriod, TrendPeriod, VolumePeriod, ReturnPeriod,
        RegimeShort, RegimeLong} \subseteq Nat \ {0}
    /\ {MinRowsSma20, MinRowsSma50, MinRowsSma200} \subseteq Nat

Closes(bars) == [t \in DOMAIN bars |-> bars[t].close]

\* rolling(window=n, min_periods=n): the rows of the window that ends at t.
RollingRows(t, n) == IF t < n THEN {} ELSE t - n + 1 .. t

SumOver(x, rows) == SumFunctionOnSet(x, rows)

\* (period ^ 2) times the population variance of the closes of t's window.
Spread(c, t) ==
    LET rows == RollingRows(t, BbPeriod)
        s == SumOver(c, rows)
    IN BbPeriod * SumOver([u \in DOMAIN c |-> c[u] * c[u]], rows) - s * s

\* BB_Upper >= a / b and BB_Upper > a / b; both are false where it is NaN.
UpperAtLeast(c, t, a, b) ==
    LET q == BbPeriod * a - b * SumOver(c, RollingRows(t, BbPeriod))
    IN /\ t >= BbPeriod
       /\ \/ q <= 0
          \/ q * q * (BbPeriod - BbDdof) <= b * b * BbMult * BbMult * BbPeriod * Spread(c, t)

UpperAbove(c, t, a, b) ==
    LET q == BbPeriod * a - b * SumOver(c, RollingRows(t, BbPeriod))
        width == b * b * BbMult * BbMult * BbPeriod * Spread(c, t)
    IN /\ t >= BbPeriod
       /\ \/ q < 0
          \/ q = 0 /\ width > 0
          \/ q * q * (BbPeriod - BbDdof) < width

\* close > upper
IsAbove(c, t) == t >= BbPeriod /\ ~UpperAtLeast(c, t, c[t], 1)

\* BB_Overshoot_Pct <= k and BB_Overshoot_Pct < k
OvershootAtMost(c, t, k) == UpperAtLeast(c, t, 100 * c[t], 100 + k)

OvershootBelow(c, t, k) == UpperAbove(c, t, 100 * c[t], 100 + k)

\* BB_Width_Pct of t exceeds that of the row before, both being there.
WidthExpands(c, t) ==
    /\ t > BbPeriod
    /\ LET mean(u) == SumOver(c, RollingRows(u, BbPeriod))
       IN Spread(c, t) * mean(t - 1) * mean(t - 1) > Spread(c, t - 1) * mean(t) * mean(t)

(***************************************************************************)
(* Heikin-Ashi.                                                            *)
(***************************************************************************)
\* 4 * HA_Close
HaCloseOf(bar) == bar.open + bar.high + bar.low + bar.close

\* (2 ^ (t + 1)) * HA_Open of the row t
HaOpen(bars) ==
    LET scaled[t \in DOMAIN bars] ==
            IF t = 1 THEN 2 * (bars[1].open + bars[1].close)
            ELSE scaled[t - 1] + HaCloseOf(bars[t - 1]) * 2 ^ (t - 2)
    IN scaled

\* HA_Body_Pct >= min_ha_body_pct
HaStrong(bars, t) ==
    100 * HaCloseOf(bars[t]) * 2 ^ (t - 1) >= (100 + MinBody) * HaOpen(bars)[t]

(***************************************************************************)
(* True range and Wilder's average of it.                                  *)
(***************************************************************************)
Abs(x) == IF x < 0 THEN -x ELSE x

\* Mutation: the previous close is left out.
HighLowRange(bars, t) == bars[t].high - bars[t].low

TrueRange(bars, t) ==
    LET own == {bars[t].high - bars[t].low}
        before == bars[t - 1].close
    IN IF t = 1 THEN Max(own)
       ELSE Max(own \cup {Abs(bars[t].high - before), Abs(bars[t].low - before)})

\* An ATR is a fraction; the next one, of an ATR and a true range.
NextAtr(atr, range) ==
    [num |-> atr.num * (AtrPeriod - 1) + range * atr.den, den |-> atr.den * AtrPeriod]

\* Mutation: the recursion is seeded with the mean of the whole series.
WilderOfAll(bars) ==
    LET range == [u \in DOMAIN bars |-> TrueRange(bars, u)]
        atr[t \in DOMAIN bars] ==
            IF t <= AtrPeriod THEN NaN
            ELSE IF t = AtrPeriod + 1
                 THEN [num |-> SumOver(range, 2 .. Len(bars)), den |-> AtrPeriod]
            ELSE NextAtr(atr[t - 1], range[t])
    IN atr

\* The ATR of each row, NaN before the seed: the mean of the true ranges of the
\* rows from the second on.
Wilder(bars) ==
    LET range == [u \in DOMAIN bars |-> TrueRange(bars, u)]
        atr[t \in DOMAIN bars] ==
            IF t <= AtrPeriod THEN NaN
            ELSE IF t = AtrPeriod + 1
                 THEN [num |-> SumOver(range, 2 .. AtrPeriod + 1), den |-> AtrPeriod]
            ELSE NextAtr(atr[t - 1], range[t])
    IN atr

\* BB_Overshoot_ATR is a number: there is an upper band and a positive ATR.
HasOvershootAtr(bars, t) ==
    t >= BbPeriod /\ t > AtrPeriod /\ Wilder(bars)[t].num > 0

\* BB_Overshoot_ATR <= tenths / 10
OvershootAtrAtMost(bars, t, tenths) ==
    LET atr == Wilder(bars)[t]
    IN /\ HasOvershootAtr(bars, t)
       /\ UpperAtLeast(Closes(bars), t,
                       10 * atr.den * bars[t].close - tenths * atr.num, 10 * atr.den)

(***************************************************************************)
(* Breakout state, and the diagnostics the filters read.                   *)
(***************************************************************************)
BreakoutType(c, t) ==
    LET was == t > 1 /\ IsAbove(c, t - 1)
    IN CASE ~was /\ IsAbove(c, t) -> "FRESH_BREAKOUT"
         [] was /\ IsAbove(c, t) -> "CONTINUATION"
         [] was /\ ~IsAbove(c, t) -> "FAILED_BREAKOUT"
         [] OTHER -> "NO_BREAKOUT"

\* streak_id counts the rows not above; the days above share the streak's.
DaysAbove(c, t) ==
    LET streak(u) == Cardinality({v \in 1 .. u : ~IsAbove(c, v)})
    IN IF IsAbove(c, t)
       THEN Cardinality({u \in 1 .. t : IsAbove(c, u) /\ streak(u) = streak(t)})
       ELSE 0

ExtensionClass(c, t) ==
    CASE ~IsAbove(c, t) -> "NOT_ABOVE_BAND"
      [] IsAbove(c, t) /\ OvershootBelow(c, t, 1) -> "CONTROLLED"
      [] IsAbove(c, t) /\ ~OvershootBelow(c, t, 1) /\ OvershootBelow(c, t, 2) -> "STRONG"
      [] IsAbove(c, t) /\ ~OvershootBelow(c, t, 2) /\ OvershootAtMost(c, t, MaxOvershoot) -> "EXTENDED"
      [] OTHER -> "EXCESSIVE"

\* Close > SMA, where there is one.
AboveTrend(c, t) ==
    t >= TrendPeriod /\ TrendPeriod * c[t] > SumOver(c, RollingRows(t, TrendPeriod))

\* Volume_Ratio_20 exists; 0 / 0 does not.
HasVolumeRatio(bars, t) ==
    t >= VolumePeriod /\ \E u \in RollingRows(t, VolumePeriod) : bars[u].volume > 0

VolumeConfirms(bars, t) ==
    /\ HasVolumeRatio(bars, t)
    /\ VolumePeriod * bars[t].volume
         > SumOver([u \in DOMAIN bars |-> bars[u].volume], RollingRows(t, VolumePeriod))

\* Close_Location_Value exists, and is at least 1/2.
HasClv(bar) == bar.high > bar.low

ClosesHigh(bar) ==
    HasClv(bar) /\ 2 * (2 * bar.close - bar.low - bar.high) >= bar.high - bar.low

(***************************************************************************)
(* The columns that have one value on every row, set from the number of    *)
(* rows the frame has.                                                     *)
(***************************************************************************)
\* The status tiered_sma returns.
SmaStatus(bars, least) == IF Len(bars) >= least THEN "OK" ELSE "UNAVAILABLE"

HistoryQuality(bars) ==
    CASE Len(bars) < MinRowsSma50 -> "VERY_LIMITED"
      [] Len(bars) >= MinRowsSma50 /\ Len(bars) < MinRowsSma200 -> "LIMITED"
      [] Len(bars) >= MinRowsSma50 /\ Len(bars) >= MinRowsSma200 -> "FULL"

Labels(bars) ==
    [quality |-> HistoryQuality(bars),
     sma20 |-> SmaStatus(bars, MinRowsSma20),
     sma50 |-> SmaStatus(bars, MinRowsSma50),
     sma200 |-> SmaStatus(bars, MinRowsSma200)]

(***************************************************************************)
(* The benchmark: its own rows by day, joined to the bars on their days.    *)
(***************************************************************************)
RowOn(index, day) == {u \in DOMAIN index : index[u].day = day}

\* RS_20D exists: each series reaches the span back by rows of its own.
HasRs(bars, index, t) ==
    t > ReturnPeriod /\ \E u \in RowOn(index, bars[t].day) : u > ReturnPeriod

\* RS_20D > 0
Outperforms(bars, index, t) ==
    /\ HasRs(bars, index, t)
    /\ \E u \in RowOn(index, bars[t].day) :
          bars[t].close * index[u - ReturnPeriod].close
             > index[u].close * bars[t - ReturnPeriod].close

\* classify_regime
ClassifyRegime(close, short, long) ==
    CASE long = NaN -> "UNAVAILABLE"
      [] long # NaN /\ close > long /\ short > long -> "BULL"
      [] long # NaN /\ close < long /\ short < long -> "BEAR"
      [] OTHER -> "NEUTRAL"

\* Market_Regime of an index row, by its close and its two averages, all of them
\* times the windows.
Regime(index, u) ==
    LET c == Closes(index)
        sum(n) == SumOver(c, RollingRows(u, n))
    IN ClassifyRegime(RegimeShort * RegimeLong * c[u], RegimeLong * sum(RegimeShort),
                      IF u < RegimeLong THEN NaN ELSE RegimeShort * sum(RegimeLong))

Bullish(bars, index, t) == \E u \in RowOn(index, bars[t].day) : Regime(index, u) = "BULL"

(***************************************************************************)
(* Weekly bars; day 0 is a Monday.                                         *)
(***************************************************************************)
Week(day) == day \div 7

Friday(week) == 7 * week + 4

DaysOfWeek(bars, w) == {t \in DOMAIN bars : Week(bars[t].day) = w}

WeeklyBar(bars, w) ==
    LET rows == DaysOfWeek(bars, w)
    IN [open |-> bars[Min(rows)].open, close |-> bars[Max(rows)].close,
        high |-> Max({bars[t].high : t \in rows}),
        low |-> Min({bars[t].low : t \in rows}),
        volume |-> SumOver([t \in DOMAIN bars |-> bars[t].volume], rows)]

\* The weeks latest_completed_weekly_bar chooses the last of.
CompletedWeeks(bars, asOf) ==
    {w \in {Week(bars[t].day) : t \in DOMAIN bars} : Friday(w) <= asOf}

(***************************************************************************)
(* evaluate_mandatory on one row and evaluate_mandatory_vectorized on all.  *)
(***************************************************************************)
\* Mutation: the overshoot is not bounded.
PassesUnbounded(bars, t) == IsAbove(Closes(bars), t) /\ HaStrong(bars, t)

Passes(bars, t) ==
    /\ IsAbove(Closes(bars), t)
    /\ OvershootAtMost(Closes(bars), t, MaxOvershoot)
    /\ HaStrong(bars, t)

MandatoryRows(bars) ==
    LET c == Closes(bars)
        breakout == {t \in DOMAIN bars : IsAbove(c, t)}
        sized == {t \in DOMAIN bars : ~UpperAtLeast(c, t, c[t], 1)
                                      /\ OvershootAtMost(c, t, MaxOvershoot)}
        strong == {t \in DOMAIN bars : HaStrong(bars, t)}
    IN breakout \cap sized \cap strong

=============================================================================
