----------------------------- MODULE ResearchRun -----------------------------
(***************************************************************************)
(* The two research programs over the local store: run_research, the event *)
(* study over a range of signal dates, and run_walk_forward, the same      *)
(* measurements window by window.  Both load the feature frames of the     *)
(* universe's symbols, extract events and measure returns from the bar     *)
(* after the signal; a frame is a sequence of rows by date, a row its      *)
(* date, whether it closed above the band and whether it is a signal.      *)
(***************************************************************************)
EXTENDS EventStudy, WalkForward, Configuration

CONSTANTS
    Requests,   \* the invocations: program, its arguments (horizon 0 when omitted), the
                \* YAML file's layer and the environment
    Histories,  \* what the store may hold: for each symbol of the universe its frame
    Sectors,    \* the universe's Sector column, "UNKNOWN" where it is empty
    Horizons,   \* forward_return_horizons
    MinRows,    \* history.min_rows_primary
    NoDate      \* an omitted --start or --end

ASSUME ResearchAssumption ==
    /\ Horizons \subseteq Nat \ {0}
    /\ MinRows \in Nat \ {0}
    /\ \A r \in Requests : r.program \in {"study", "walk"} /\ r.horizon \in Int
    /\ \A hs \in Histories :
          /\ IsFiniteSet(DOMAIN hs)
          /\ \A s \in DOMAIN hs :
                LET frame == hs[s]
                IN /\ s \in DOMAIN Sectors
                   /\ frame \in Seq({frame[t] : t \in DOMAIN frame})
                   /\ \A t \in DOMAIN frame :
                         IsDate(frame[t].date) /\ (frame[t].pass => frame[t].above)
                   /\ \A t, u \in DOMAIN frame : t < u => frame[t].date < frame[u].date

\* The horizon is declared an integer; that the layers give one is not checked.
ASSUME HorizonAssumption ==
    \A r \in Requests : \A cfg \in LoadConfig(r.file, r.environ, << >>) :
        cfg["research"]["primary_research_horizon"] \in Int

VARIABLES
    request,  \* args, the file and the environment
    config,   \* cfg, <<>> before it is loaded
    history,  \* the feature frame of each symbol of security_master_latest
    step,     \* where main is
    loaded,   \* the keys of feature_frames
    signals,  \* all_signal_days, as pairs of symbol and row
    events,   \* independent_events, as pairs of symbol and row
    rows,     \* rows, the measured events
    report,   \* the counts run_research prints, <<>> before
    start,    \* train_start of the next window
    windows,  \* windows
    results,  \* window_rows
    exit      \* the exit code, or the exception that ended the program

vars == <<request, config, history, step, loaded, signals, events, rows, report, start,
          windows, results, exit>>

Running == "running"

Init ==
    /\ request \in Requests
    /\ history \in Histories
    /\ config = << >>
    /\ step = "configure"
    /\ loaded = {}
    /\ signals = {}
    /\ events = {}
    /\ rows = {}
    /\ report = << >>
    /\ start = NoDate
    /\ windows = << >>
    /\ results = << >>
    /\ exit = Running

Stop(code) == step' = "stopped" /\ exit' = code

Goto(s) == step' = s /\ exit' = exit

Dates(s) == {history[s][t].date : t \in DOMAIN history[s]}

\* Neither program overrides anything from its command line.
Configure ==
    /\ step = "configure"
    /\ LET loads == LoadConfig(request.file, request.environ, << >>)
       IN  IF loads = {} THEN Stop("ConfigurationError") /\ UNCHANGED config
           ELSE Goto("load") /\ config' \in loads
    /\ UNCHANGED <<request, history, loaded, signals, events, rows, report, start,
                   windows, results>>

Method == config["research"]["entry_price_method"]

\* args.horizon or cfg.research.primary_research_horizon
Horizon == IF request.horizon # 0 THEN request.horizon
           ELSE config["research"]["primary_research_horizon"]

\* The loop over the universe; a missing snapshot is an empty universe.
Load ==
    /\ step = "load"
    /\ loaded' = {s \in DOMAIN history : Len(history[s]) >= MinRows}
    /\ IF loaded' = {} THEN Stop("1")
       ELSE Goto(IF request.program = "study" THEN "extract" ELSE "roll")
    /\ start' = IF loaded' = {} THEN NoDate ELSE Min(UNION {Dates(s) : s \in loaded'})
    /\ UNCHANGED <<request, config, history, signals, events, rows, report, windows, results>>

(* extract_events over frames, a function of symbols.                      *)
EventsOf(frames) == UNION {{s} \X Events(frames[s]) : s \in DOMAIN frames}

DateOfRow(e) == history[e[1]][e[2]].date

Within(es, from, to) == {e \in es : from <= DateOfRow(e) /\ DateOfRow(e) <= to}

(* One element of rows: the bar of entry and the bars each figure reads.   *)
Measured(e) ==
    LET frame == history[e[1]]
        entry == CHOOSE t \in EntryRow(frame, e[2]) : TRUE
    IN [event |-> e,
        entry |-> entry,
        returns |-> [h \in Horizons |-> ReturnRow(frame, entry, h)],
        excursion |-> ExcursionRows(frame, entry, Horizon, Method)]

Measurements(es) == {Measured(e) : e \in {x \in es : EntryRow(history[x[1]], x[2]) # {}}}

\* describe_returns(...).n : the rows whose return is not missing.
SampleSize(ms) ==
    IF Horizon \in Horizons
    THEN Cardinality({m \in ms : m.returns[Horizon] # {}})
    ELSE 0

(***************************************************************************)
(* run_research.                                                           *)
(***************************************************************************)
Extract ==
    /\ step = "extract"
    /\ signals' = UNION {{s} \X SignalRows(history[s]) : s \in loaded}
    /\ events' = EventsOf([s \in loaded |-> history[s]])
    /\ Goto("restrict")
    /\ UNCHANGED <<request, config, history, loaded, rows, report, start, windows, results>>

Ranged == request.from # NoDate \/ request.to # NoDate

\* An empty frame of events has no Signal_Date to compare with the range.
RestrictDates ==
    /\ step = "restrict"
    /\ IF Ranged /\ signals = {}
       THEN Stop("KeyError") /\ UNCHANGED events
       ELSE /\ Goto("measure")
            /\ events' = {e \in events :
                            /\ request.from # NoDate => DateOfRow(e) >= request.from
                            /\ request.to # NoDate => DateOfRow(e) <= request.to}
    /\ UNCHANGED <<request, config, history, loaded, signals, rows, report, start, windows, results>>

Measure ==
    /\ step = "measure"
    /\ rows' = Measurements(events)
    /\ IF rows' = {} THEN Stop("0") ELSE Goto("report")
    /\ UNCHANGED <<request, config, history, loaded, signals, events, report, start, windows,
                   results>>

Stocks(ms) == Cardinality({m.event[1] : m \in ms})
Days(ms) == Cardinality({DateOfRow(m.event) : m \in ms})

\* describe_returns: n leaves the missing returns out, the other counts do not,
\* unless all are missing.
Describe(ms) ==
    LET n == SampleSize(ms)
    IN [n |-> n,
        stocks |-> IF n = 0 THEN 0 ELSE Stocks(ms),
        days |-> IF n = 0 THEN 0 ELSE Days(ms)]

\* cluster_summary
Clusters(ms) == [n |-> Cardinality(ms), stocks |-> Stocks(ms), days |-> Days(ms)]

\* sector_summary: N, the returns of a sector that are not missing.
SectorCounts(ms) ==
    LET of(m) == Sectors[m.event[1]]
    IN [x \in {of(m) : m \in ms} |-> SampleSize({m \in ms : of(m) = x})]

\* The returns are looked up by the name of the horizon's column.
Report ==
    /\ step = "report"
    /\ IF Horizon \in Horizons
       THEN /\ Stop("0")
            /\ report' = [stats |-> Describe(rows), clusters |-> Clusters(rows),
                          sectors |-> SectorCounts(rows)]
       ELSE Stop("KeyError") /\ UNCHANGED report
    /\ UNCHANGED <<request, config, history, loaded, signals, events, rows, start, windows,
                   results>>

(***************************************************************************)
(* run_walk_forward.                                                       *)
(***************************************************************************)
DataEnd == Max(UNION {Dates(s) : s \in loaded})

\* One turn of the loop of generate_walk_forward_windows.
Roll ==
    /\ step = "roll"
    /\ IF Window(start).testEnd > DataEnd
       THEN /\ IF windows = << >> THEN Stop("1") ELSE Goto("evaluate")
            /\ UNCHANGED <<start, windows>>
       ELSE /\ windows' = Append(windows, Window(start))
            /\ start' = AddMonths(start, TestMonths)
            /\ Goto("roll")
    /\ UNCHANGED <<request, config, history, loaded, signals, events, rows, report, results>>

RowsBy(s, from, to) ==
    {t \in DOMAIN history[s] : from <= history[s][t].date /\ history[s][t].date <= to}

\* Mutation: events are extracted from the window's own rows only.
WindowedToSlice(from, to) ==
    [s \in {x \in loaded : RowsBy(x, from, to) # {}} |->
        [t \in 1 .. Max(RowsBy(s, from, to)) |->
            IF t \in RowsBy(s, from, to) THEN history[s][t]
            ELSE [history[s][t] EXCEPT !.pass = FALSE]]]

\* windowed: each frame up to its last row of the window, when it has one.
Windowed(from, to) ==
    [s \in {x \in loaded : RowsBy(x, from, to) # {}} |->
        SubSeq(history[s], 1, Max(RowsBy(s, from, to)))]

\* _events_and_forward_returns_in_window
InWindow(from, to) == Measurements(Within(EventsOf(Windowed(from, to)), from, to))

Evaluate ==
    /\ step = "evaluate"
    /\ LET w == windows[Len(results) + 1]
           train == InWindow(w.trainStart, w.trainEnd)
           test == InWindow(w.testStart, w.testEnd)
       IN results' = Append(results, [train |-> train, test |-> test,
                                      trainN |-> SampleSize(train),
                                      testN |-> SampleSize(test)])
    /\ IF Len(results') = Len(windows) THEN Stop("0") ELSE Goto("evaluate")
    /\ UNCHANGED <<request, config, history, loaded, signals, events, rows, report, start,
                   windows>>

Next == Configure \/ Load \/ Extract \/ RestrictDates \/ Measure \/ Report \/ Roll \/ Evaluate

Spec == Init /\ [][Next]_vars

(***************************************************************************)
(* Properties.                                                             *)
(***************************************************************************)
Full(s) == Events(history[s])

(* Each field has the value of the last layer that names it, whatever other *)
(* fields of its section the layers name (config.py:3-6), a name no field   *)
(* has ends the program before it reads anything, and no program goes on    *)
(* with an entry price method the study does not know.                      *)
ConfigurationLayered ==
    LET layers == Layers(request.file, request.environ, << >>)
        naming(s, f) == {k \in DOMAIN layers : s \in DOMAIN layers[k] /\ f \in DOMAIN layers[k][s]}
    IN /\ config # << >> =>
             /\ \A s \in DOMAIN Defaults : \A f \in DOMAIN Defaults[s] :
                   config[s][f] = IF naming(s, f) = {} THEN Defaults[s][f]
                                  ELSE layers[Max(naming(s, f))][s][f]
             /\ \A k \in DOMAIN layers : \A s \in DOMAIN layers[k] :
                   DOMAIN layers[k][s] \subseteq DOMAIN Defaults[s]
             /\ Method \in {"next_open", "next_close"}
       /\ config = << >> => loaded = {} /\ signals = {} /\ rows = {} /\ results = << >>

(* extract_independent_events keeps every fresh breakout, never drops a    *)
(* signal day unless an event lies less than the cooldown before it, and   *)
(* keeps two signal days closer than that only when the later is fresh.    *)
EventsIndependent ==
    step = "restrict" =>
        \A s \in loaded :
            LET near(t) == {u \in Full(s) : /\ u < t
                                            /\ DayNumber(history[s], t)
                                                 - DayNumber(history[s], u) < Cooldown}
            IN /\ \A t \in SignalRows(history[s]) \ Full(s) :
                     near(t) # {} /\ ~Fresh(history[s], t)
               /\ \A t \in Full(s) : near(t) # {} => Fresh(history[s], t)
               /\ {e \in events : e[1] = s} = {s} \X Full(s)

(* Cutting the frames at a window's end and its events at its dates        *)
(* (_events_and_forward_returns_in_window) keeps every event the whole     *)
(* history has on those dates and adds none: the cooldown of an event      *)
(* before the window still counts in it.  This is of which events are      *)
(* measured, those that have a next bar.  The next bar and the bars a      *)
(* return reads are the whole history's and may lie after the window's     *)
(* end, so the returns of a train window may read bars of its test window. *)
WindowsKeepEvents ==
    \A k \in DOMAIN results :
        LET all == UNION {{s} \X Full(s) : s \in loaded}
            sample(es) == {e \in es : EntryRow(history[e[1]], e[2]) # {}}
        IN /\ {m.event : m \in results[k].test}
                = sample(Within(all, windows[k].testStart, windows[k].testEnd))
           /\ {m.event : m \in results[k].train}
                = sample(Within(all, windows[k].trainStart, windows[k].trainEnd))

(* The rolling windows (generate_walk_forward_windows) test each date once: *)
(* of the sessions between the first test day and the last, none is in two *)
(* test windows or in none, but for the last days of a month, where adding *)
(* months loses the day.                                                   *)
SessionsTestedOnce ==
    \A d \in UNION {Dates(s) : s \in loaded} :
        /\ windows # << >>
        /\ Day(d) < 28
        /\ windows[1].testStart <= d /\ d <= windows[Len(windows)].testEnd
        => Cardinality({k \in DOMAIN windows :
                          windows[k].testStart <= d /\ d <= windows[k].testEnd}) = 1

(* Every event of the sample that has a next bar is measured, once, and    *)
(* from that bar on: nothing the position did not live through is read,    *)
(* whatever the entry method (resolve_entry, calculate_mfe_mae), and the   *)
(* other events are signals of a security's last bar.  The sectors' counts *)
(* add up to the sample size printed, which is short of the measured       *)
(* events by those whose horizon lies past the data.                       *)
MeasuredFromEntry ==
    LET measured == rows \cup UNION {results[k].train \cup results[k].test :
                                       k \in DOMAIN results}
        reads(m) == m.excursion \cup UNION {m.returns[h] : h \in Horizons}
    IN /\ \A m \in measured :
             LET signal == m.event[2]
             IN \A t \in reads(m) :
                   /\ t > signal /\ t \in DOMAIN history[m.event[1]]
                   /\ Method = "next_close" => t > signal + 1
       /\ step \in {"report", "stopped"} /\ request.program = "study" /\ exit # "KeyError" =>
             /\ Cardinality(rows) = Cardinality({m.event : m \in rows})
             /\ \A e \in events \ {m.event : m \in rows} : e[2] = Len(history[e[1]])
       /\ report # << >> =>
             /\ report.stats.n = FoldFunction(+, 0, report.sectors)
             /\ report.clusters.n - report.stats.n
                  = Cardinality({m \in rows : m.entry + Horizon
                                                > Len(history[m.event[1]])})

(* What events.py:65-69 says of the cooldown: a signal day at least that   *)
(* many trading rows of its security after the last event is an event.     *)
CooldownIsTradingRows ==
    \A s \in loaded : \A t \in SignalRows(history[s]) :
        LET before == {u \in Full(s) : u < t}
        IN before # {} /\ t - Max(before) >= Cooldown => t \in Full(s)

=============================================================================
