-------------------------- MODULE PortfolioBacktest --------------------------
(***************************************************************************)
(* run_portfolio_backtest (portfolio/backtest.py): one pass over all the   *)
(* dates any price series has.  Each date closes the positions that exit   *)
(* on it, fills that day's candidates in order within the limits, and      *)
(* marks the book to market; the metrics are taken from the closed trades. *)
(* Money is whole units, percentages whole per cents, costs basis points.  *)
(***************************************************************************)
EXTENDS Integers, Sequences, FiniteSetsExt, Functions

CONSTANTS
    Inputs,          \* the lists of candidates a run may be given, by entry date
    InitialCapital,  \* initial_capital
    MaxPositions,    \* risk_cfg.max_concurrent_positions
    MaxSectorPct,    \* risk_cfg.max_sector_exposure_pct
    MaxExposurePct,  \* risk_cfg.max_portfolio_exposure_pct
    Profile,         \* the CostProfileConfig, a record of basis points
    GstPct,          \* gst_pct, charged on brokerage and exchange fees
    NoPrice          \* a bar whose close is NaN

(* A TradeCandidate; prices maps the dates of its bars to their closes.    *)
CandidateOK(c) ==
    /\ c.entry \in Nat /\ c.exit \in Nat
    /\ c.entryPrice \in Nat /\ c.exitPrice \in Nat
    /\ DOMAIN c.prices \subseteq Nat
    /\ \A d \in DOMAIN c.prices : c.prices[d] \in Nat \cup {NoPrice}

ASSUME BacktestAssumption ==
    /\ InitialCapital \in Nat \ {0}
    /\ MaxPositions \in Nat
    /\ MaxSectorPct \in Nat
    /\ MaxExposurePct \in Nat
    /\ Profile \in [brokerageBuy : Int, brokerageSell : Int, sttBuy : Int, sttSell : Int,
                    exchangeBuy : Int, exchangeSell : Int, stampBuy : Int,
                    stampSell : Int, slippageBuy : Int, slippageSell : Int]
    /\ GstPct \in Int
    /\ \A cs \in Inputs :
          /\ cs \in Seq({cs[i] : i \in DOMAIN cs})
          /\ \A i \in DOMAIN cs : CandidateOK(cs[i])
          /\ \A i, j \in DOMAIN cs : i < j => cs[i].entry <= cs[j].entry

VARIABLES
    cands,    \* ordered: the candidates, by entry date
    phase,    \* the part of the day's loop body: close, fill, mark; measure; done
    today,    \* d
    cash,     \* cash
    open,     \* open_positions, by candidate; in the order of the candidates
    shares,   \* the shares of each position taken, 0 before
    pending,  \* the candidates of today still to be considered
    taken,    \* trades_taken
    skipped,  \* trades_skipped
    closed,   \* closed_positions, in order
    equity,   \* equity_by_date
    metrics   \* what _compute_metrics returns, when it has

vars == <<cands, phase, today, cash, open, shares, pending, taken, skipped,
          closed, equity, metrics>>

Ids == DOMAIN cands

\* all_dates.
AllDates == UNION {DOMAIN cands[i].prices : i \in Ids}

First(S) == CHOOSE x \in S : \A y \in S : x <= y

Value(i) == shares[i] * cands[i].entryPrice

Exposure(S) == MapThenSumSet(Value, S)

(***************************************************************************)
(* The day loop.                                                           *)
(***************************************************************************)
Init ==
    /\ cands \in Inputs
    /\ IF AllDates = {}
       THEN phase = "measure" /\ today = 0
       ELSE phase = "close" /\ today = First(AllDates)
    /\ cash = InitialCapital
    /\ open = {}
    /\ shares = [i \in Ids |-> 0]
    /\ pending = {}
    /\ taken = {}
    /\ skipped = {}
    /\ closed = << >>
    /\ equity = << >>
    /\ metrics = << >>

\* Mutation: a position whose exit day is past is closed as well.
Overdue == {i \in open : cands[i].exit <= today}

Due == {i \in open : cands[i].exit = today}

\* Mutation: the sale returns what the position cost.
CloseAtCost ==
    /\ phase = "close"
    /\ Due # {}
    /\ LET i == First(Due)
       IN /\ cash' = cash + shares[i] * cands[i].entryPrice
          /\ open' = open \ {i}
          /\ closed' = Append(closed, i)
    /\ UNCHANGED <<cands, phase, today, shares, pending, taken, skipped, equity,
                   metrics>>

ClosePosition ==
    /\ phase = "close"
    /\ Due # {}
    /\ LET i == First(Due)
       IN /\ cash' = cash + shares[i] * cands[i].exitPrice
          /\ open' = open \ {i}
          /\ closed' = Append(closed, i)
    /\ UNCHANGED <<cands, phase, today, shares, pending, taken, skipped, equity,
                   metrics>>

\* candidates_by_entry_date.get(d, [])
StartFilling ==
    /\ phase = "close"
    /\ Due = {}
    /\ phase' = "fill"
    /\ pending' = {i \in Ids : cands[i].entry = today}
    /\ UNCHANGED <<cands, today, cash, open, shares, taken, skipped, closed,
                   equity, metrics>>

Book == cash + Exposure(open)

\* shares: an equal share of the book, rounded down to whole shares.
Affordable(c) ==
    IF c.entryPrice > 0 /\ MaxPositions > 0
    THEN Book \div (MaxPositions * c.entryPrice) ELSE 0

SectorExposure(s) == Exposure({p \in open : cands[p].sector = s})

\* Mutation: the candidate itself is left out of the sector exposure.
FitsBefore(c, n) ==
    /\ Cardinality(open) < MaxPositions
    /\ n > 0
    /\ 100 * (Exposure(open) + n * c.entryPrice) <= MaxExposurePct * Book
    /\ 100 * SectorExposure(c.sector) <= MaxSectorPct * Book
    /\ n * c.entryPrice <= cash

\* The checks a candidate passes on its way to a fill.
Fits(c, n) ==
    /\ Cardinality(open) < MaxPositions
    /\ n > 0
    /\ 100 * (Exposure(open) + n * c.entryPrice) <= MaxExposurePct * Book
    /\ 100 * (SectorExposure(c.sector) + n * c.entryPrice) <= MaxSectorPct * Book
    /\ n * c.entryPrice <= cash

Fill ==
    /\ phase = "fill"
    /\ pending # {}
    /\ LET i == First(pending)
           n == Affordable(cands[i])
       IN /\ Fits(cands[i], n)
          /\ cash' = cash - n * cands[i].entryPrice
          /\ open' = open \cup {i}
          /\ shares' = [shares EXCEPT ![i] = n]
          /\ taken' = taken \cup {i}
          /\ pending' = pending \ {i}
    /\ UNCHANGED <<cands, phase, today, skipped, closed, equity, metrics>>

Skip ==
    /\ phase = "fill"
    /\ pending # {}
    /\ LET i == First(pending)
       IN /\ ~Fits(cands[i], Affordable(cands[i]))
          /\ skipped' = skipped \cup {i}
          /\ pending' = pending \ {i}
    /\ UNCHANGED <<cands, phase, today, cash, open, shares, taken, closed, equity,
                   metrics>>

StopFilling ==
    /\ phase = "fill"
    /\ pending = {}
    /\ phase' = "mark"
    /\ UNCHANGED <<cands, today, cash, open, shares, pending, taken, skipped,
                   closed, equity, metrics>>

\* Today's close of a position, or its cost when there is none to mark it with.
MarkedValue(i) ==
    IF today \in DOMAIN cands[i].prices /\ cands[i].prices[today] # NoPrice
    THEN shares[i] * cands[i].prices[today]
    ELSE Value(i)

Mark ==
    /\ phase = "mark"
    /\ equity' = [d \in DOMAIN equity \cup {today} |->
                     IF d = today THEN cash + MapThenSumSet(MarkedValue, open)
                     ELSE equity[d]]
    /\ LET later == {d \in AllDates : d > today}
       IN IF later = {}
          THEN phase' = "measure" /\ UNCHANGED today
          ELSE phase' = "close" /\ today' = First(later)
    /\ UNCHANGED <<cands, cash, open, shares, pending, taken, skipped, closed,
                   metrics>>

(***************************************************************************)
(* The metrics (_compute_metrics, costs.py).                               *)
(***************************************************************************)
\* _statutory_cost_pct and _broker_cost_pct, in hundredths of a basis point.
StatutoryCost ==
    LET exchange == Profile.exchangeBuy + Profile.exchangeSell
    IN 100 * (Profile.sttBuy + Profile.sttSell + exchange
                + Profile.stampBuy + Profile.stampSell) + GstPct * exchange

BrokerCost(slippageMultiplier) ==
    LET brokerage == Profile.brokerageBuy + Profile.brokerageSell
    IN StatutoryCost + (100 + GstPct) * brokerage
          + 100 * slippageMultiplier * (Profile.slippageBuy + Profile.slippageSell)

\* The sign of broker_net_return_pct of a closed trade, and its size.
NetReturn(i) ==
    LET c == cands[i]
    IN 1000000 * (c.exitPrice - c.entryPrice) - BrokerCost(1) * c.entryPrice

Lost(i) == NetReturn(i) < 0

\* Mutation: a win does not end the streak.
RunningLosses == [n \in 0 .. Len(closed) |->
    Cardinality({m \in 1 .. n : Lost(closed[m])})]

\* current, after each trade of _longest_losing_streak.
LosingRun ==
    LET run[n \in 0 .. Len(closed)] ==
            IF n > 0 /\ Lost(closed[n]) THEN run[n - 1] + 1 ELSE 0
    IN run

RunningMax(d) == Max({equity[e] : e \in {x \in DOMAIN equity : x <= d}})

\* The date of max_drawdown: equity there is smallest against the peak so far.
\* min() skips the 0/0 of a peak of 0; of nothing but those it is NaN, here 0 of 0.
Deepest ==
    CHOOSE d \in DOMAIN equity :
        /\ RunningMax(d) > 0 \/ \A e \in DOMAIN equity : RunningMax(e) = 0
        /\ \A e \in DOMAIN equity :
              equity[d] * RunningMax(e) <= equity[e] * RunningMax(d)

ComputeMetrics ==
    /\ phase = "measure"
    /\ phase' = "done"
    /\ metrics' = IF equity = << >> THEN << >>
                  ELSE [trades |-> Len(closed),
                        wins |-> Cardinality({n \in DOMAIN closed : NetReturn(closed[n]) > 0}),
                        losses |-> Cardinality({n \in DOMAIN closed : Lost(closed[n])}),
                        streak |-> Max(Range(LosingRun)),
                        peak |-> RunningMax(Deepest),
                        trough |-> equity[Deepest]]
    /\ UNCHANGED <<cands, today, cash, open, shares, pending, taken, skipped,
                   closed, equity>>

Next ==
    \/ ClosePosition
    \/ StartFilling
    \/ Fill
    \/ Skip
    \/ StopFilling
    \/ Mark
    \/ ComputeMetrics

Spec == Init /\ [][Next]_vars

(***************************************************************************)
(* Properties.                                                             *)
(***************************************************************************)
\* The positions closed by now.
Closed == Range(closed)

Gain(i) == shares[i] * (cands[i].exitPrice - cands[i].entryPrice)

(* What the book holds at cost is the capital it started with and what the *)
(* trades closed so far have made or lost: over any number of overlapping  *)
(* trades no money appears or disappears (the cash arithmetic of           *)
(* backtest.py:83-127, spread over three loops and many days).             *)
BooksBalance == Book = InitialCapital + MapThenSumSet(Gain, Closed)

\* Whether the loop is past the fills, and past the exits, of date d.
FillsDone(i) ==
    LET d == cands[i].entry
    IN \/ d < today
       \/ d = today /\ phase \in {"mark", "measure", "done"}
       \/ d = today /\ phase = "fill" /\ i \notin pending

ExitsDone(i) ==
    LET d == cands[i].exit
    IN d < today \/ (d = today /\ phase # "close")

(* Every candidate that enters on a date of the run is either taken or     *)
(* skipped, once, when its day is past, one that enters on no such date is *)
(* neither; a trade taken is closed exactly when a later date of the run   *)
(* is its exit, so that one that exits on its entry day, or on a day with  *)
(* no bar, is held to the end.                                             *)
CandidatesAccountedFor ==
    /\ taken \cap skipped = {}
    /\ Closed \cap open = {}
    /\ Closed \cup open = taken
    /\ \A m, n \in DOMAIN closed : closed[m] = closed[n] => m = n
    /\ \A i \in Ids :
          /\ i \in taken \cup skipped <=> cands[i].entry \in AllDates /\ FillsDone(i)
          /\ i \in taken =>
                LET leaves == cands[i].exit \in AllDates /\ cands[i].exit > cands[i].entry
                IN /\ i \in Closed => leaves
                   /\ leaves /\ ExitsDone(i) => i \in Closed

Sectors == {cands[i].sector : i \in Ids}

(* A fill leaves the book within its limits, the candidate included, takes *)
(* no more than an equal share of it, and is paid from cash, also where    *)
(* the exposure limit would allow more than the book holds.                *)
FillsWithinLimits ==
    [][\A i \in taken' \ taken :
          LET bookAfter == cash' + Exposure(open)' IN
          /\ 100 * Exposure(open)' <= MaxExposurePct * bookAfter
          /\ \A s \in Sectors :
                cands[i].sector = s =>
                    100 * SectorExposure(s)' <= MaxSectorPct * bookAfter
          /\ MaxPositions * Value(i)' <= bookAfter
          /\ cash' >= 0]_vars

\* round_trip_cost_pct of the configuration, in hundredths of a basis point.
RoundTripCost ==
    LET p == Profile
        fees == p.brokerageBuy + p.exchangeBuy + p.brokerageSell + p.exchangeSell
    IN 100 * (fees + p.slippageBuy + p.slippageSell + p.stampBuy + p.stampSell
                + p.sttBuy + p.sttSell) + GstPct * fees

(* The metrics describe the trades that closed, each net of the cost the   *)
(* configuration calls a round trip (computed there by another formula);   *)
(* the streak is the longest run of losses among them, and no fall of the  *)
(* equity from an earlier date to a later one is deeper than the drawdown. *)
MetricsDescribeRun ==
    phase = "done" /\ equity # << >> =>
        LET lost(n) == 1000000 * Gain(closed[n]) < RoundTripCost * Value(closed[n])
            block(m, n) == \A k \in m .. n : lost(k)
        IN /\ metrics.trades = Cardinality(taken) - Cardinality(open)
           /\ metrics.losses = Cardinality({n \in DOMAIN closed : lost(n)})
           /\ metrics.streak =
                  Max({0} \cup {b[2] - b[1] + 1 : b \in
                         {b \in (DOMAIN closed) \X (DOMAIN closed) :
                             b[1] <= b[2] /\ block(b[1], b[2])}})
           /\ \A d, e \in DOMAIN equity :
                  d <= e => metrics.trough * equity[d] <= equity[e] * metrics.peak

=============================================================================
