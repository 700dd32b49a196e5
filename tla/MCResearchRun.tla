---------------------------- MODULE MCResearchRun ----------------------------
(* A small instance of ResearchRun for TLC.                                 *)
EXTENDS ResearchRun

CONSTANTS A, B, None

\* Below the band, above it without the candle, a signal.
Kinds == {[above |-> FALSE, pass |-> FALSE], [above |-> TRUE, pass |-> FALSE],
          [above |-> TRUE, pass |-> TRUE]}

\* Every frame over the given session dates.
Frames(dates) ==
    {[t \in DOMAIN dates |-> [date |-> dates[t]] @@ kinds[t]] :
        kinds \in [DOMAIN dates -> Kinds]}

\* From the last day of a leap February, and from the middle of a month; the
\* second pair of dates each has in the second half of their train periods.
MonthEnd == <<20240229, 20240610, 20250228, 20250710, 20250828, 20250829, 20260301>>
MidMonth == <<20240715, 20250114, 20250715, 20260114, 20260115, 20260720>>

\* Too short for a window, with a signal on its last bar.
LastBar ==
    <<[date |-> 20240301, above |-> FALSE, pass |-> FALSE],
      [date |-> 20250301, above |-> FALSE, pass |-> FALSE],
      [date |-> 20250711, above |-> TRUE, pass |-> TRUE]>>

\* B is missing, short, or long enough.
Others ==
    {<<>>, <<[date |-> 20240301, above |-> TRUE, pass |-> TRUE]>>, LastBar}

\* B has no sector.
SectorColumn == (A :> "IT") @@ (B :> "UNKNOWN")

Stores ==
    {A :> f : f \in Frames(MonthEnd)}
    \cup {(A :> f) @@ (B :> g) : f \in Frames(MidMonth), g \in Others}
    \cup {A :> SubSeq(f, 1, 2) : f \in Frames(<<20240229, 20240610>>)}
    \cup {B :> LastBar, <<>>}

BuiltIn ==
    ("baseline" :> [max_bb_overshoot_pct |-> 4, bb_ddof |-> 1])
    @@ ("research" :> [entry_price_method |-> "next_open", primary_research_horizon |-> 1])
    @@ ("data" :> [price_basis |-> "ADJUSTED"])
    @@ ("universe" :> [universe_scope |-> "NIFTY_200"])

Research(fields) == "research" :> fields

Request(program, from, to, horizon, file, environ) ==
    [program |-> program, from |-> from, to |-> to, horizon |-> horizon,
     file |-> file, environ |-> environ]

\* The defaults; the file and the environment setting different fields and the
\* same one; a variable with a name of three parts; an invalid value, a field and
\* a section there are not; a horizon nothing is measured for.
Invocations ==
    {Request("walk", None, None, 0, <<>>, <<>>),
     Request("study", None, None, 0, Research("entry_price_method" :> "next_close"),
             <<"research", "primary_research_horizon">> :> 2),
     Request("study", 20250228, None, 2, Research("entry_price_method" :> "next_close"),
             <<"research", "entry_price_method">> :> "next_open"),
     Request("study", None, 20250715, 9, <<>>, <<"research", "entry", "method">> :> "none"),
     Request("walk", None, None, 1, <<>>, <<"research", "entry_price_method">> :> "next_close"),
     Request("walk", None, None, 0, Research("entry_price_method" :> "same_close"), <<>>),
     Request("study", None, None, 0, Research("horizon" :> 2), <<>>),
     Request("study", None, None, 0, <<>>, <<"studies", "horizon">> :> 2)}

=============================================================================
