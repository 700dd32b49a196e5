--------------------------- MODULE SessionCalendar ---------------------------
(***************************************************************************)
(* data/calendar.py as a run executes it: the holiday file is loaded for   *)
(* the years around the run date, resolve_session walks back to the last   *)
(* completed session and forward to the next one, and classify_data_status *)
(* counts the sessions between a symbol's last bar and that session.  The  *)
(* walks are the code's loops, one action per iteration.                   *)
(***************************************************************************)
EXTENDS TradingDays

CONSTANTS
    Days,         \* the dates runs are made on
    BarDays,      \* the dates last bars have
    YearLength,   \* days in a year of the model
    Window,       \* lookback_days and lookahead_days of required_holiday_years
    Closures      \* the dates NSE may declare a holiday

ASSUME CalendarAssumption ==
    /\ Days \subseteq Nat
    /\ BarDays \subseteq Nat
    /\ Closures \subseteq Nat
    /\ YearLength \in Nat \ {0}
    /\ Window \in Nat
    /\ MaxLook <= Window

YearOf(d) == d \div YearLength

\* Mutation: only the run date's own year.
YearOfRun(d) == {YearOf(d)}

\* required_holiday_years: every year the window around the run date touches
RequiredYears(d) == YearOf(d - Window) .. YearOf(d + Window)

\* The years the holiday file may list: any that some run asks for.
FileYears == {YearOf(d) : d \in UNION {(a - Window) .. (a + Window) : a \in Days}}

VARIABLES
    pc,         \* where the run is
    asOf,       \* its IST date
    closed,     \* it is past 15:30
    strict,     \* not --allow-missing-holidays
    official,   \* the holidays NSE declared
    listed,     \* the years the holiday file has an entry for
    holidays,   \* what load_holiday_set returned
    cur,        \* the date a loop is looking at
    left,       \* the iterations the loop has left
    expected,   \* expected_completed_session
    planned,    \* planned_entry_date
    last,       \* the last bar's date of the symbol being classified
    count,      \* sessions_between's counter
    status      \* what classify_data_status returned

clock == <<asOf, closed, strict>>
file == <<official, listed>>
loop == <<cur, left>>
classified == <<last, count, status>>
calendarVars == <<pc, clock, file, holidays, loop, expected, planned, classified>>

CalendarStatuses == {"none", "MISSING", "INVALID", "CURRENT", "STALE_1_SESSION", "STALE_2_PLUS"}

CalendarTypeOK ==
    /\ pc \in {"load", "resolve", "back", "forward", "ready", "count", "blocked", "error"}
    /\ asOf \in Days
    /\ closed \in BOOLEAN
    /\ strict \in BOOLEAN
    /\ official \subseteq Closures
    /\ listed \subseteq FileYears
    /\ holidays \subseteq official
    /\ cur \in Int
    /\ left \in 0 .. MaxLook
    /\ expected \in Int
    /\ planned \in Int
    /\ last \in BarDays \cup {NoDay}
    /\ count \in Nat
    /\ status \in CalendarStatuses

CalendarInit ==
    /\ pc = "load"
    /\ asOf \in Days
    /\ closed \in BOOLEAN
    /\ strict \in BOOLEAN
    /\ official \in SUBSET Closures
    /\ listed \in SUBSET FileYears
    /\ holidays = {}
    /\ cur = 0
    /\ left = 0
    /\ expected = NoDay
    /\ planned = NoDay
    /\ last = NoDay
    /\ count = 0
    /\ status = "none"

-------------------------------------------------------------------------------
(* resolve_holidays_for_run *)

\* CalendarError: the program exits with code 5.
Block ==
    /\ pc = "load"
    /\ strict
    /\ ~ RequiredYears(asOf) \subseteq listed
    /\ pc' = "blocked"
    /\ UNCHANGED <<clock, file, holidays, loop, expected, planned, classified>>

\* A year the file does not list degrades to weekdays, in non-strict mode.
LoadHolidays ==
    /\ pc = "load"
    /\ strict => RequiredYears(asOf) \subseteq listed
    /\ holidays' = {d \in official : YearOf(d) \in RequiredYears(asOf) \cap listed}
    /\ pc' = "resolve"
    /\ UNCHANGED <<clock, file, loop, expected, planned, classified>>

-------------------------------------------------------------------------------
(* resolve_session, previous_trading_day and next_trading_day *)

EnterForward(from) ==
    /\ expected' = from
    /\ cur' = from + 1
    /\ left' = MaxLook
    /\ pc' = "forward"

\* On a trading day, from the close on, the day itself is the session.
ExpectToday ==
    /\ pc = "resolve"
    /\ IsTradingDay(asOf, holidays) /\ closed
    /\ EnterForward(asOf)
    /\ UNCHANGED <<clock, file, holidays, planned, classified>>

\* Mutation: the walk starts on the run date.
LookBackFromToday ==
    /\ pc = "resolve"
    /\ ~ (IsTradingDay(asOf, holidays) /\ closed)
    /\ cur' = asOf
    /\ left' = MaxLook
    /\ pc' = "back"
    /\ UNCHANGED <<clock, file, holidays, expected, planned, classified>>

LookBack ==
    /\ pc = "resolve"
    /\ ~ (IsTradingDay(asOf, holidays) /\ closed)
    /\ cur' = asOf - 1
    /\ left' = MaxLook
    /\ pc' = "back"
    /\ UNCHANGED <<clock, file, holidays, expected, planned, classified>>

BackStep ==
    /\ pc = "back" /\ left > 0
    /\ ~ IsTradingDay(cur, holidays)
    /\ cur' = cur - 1
    /\ left' = left - 1
    /\ UNCHANGED <<pc, clock, file, holidays, expected, planned, classified>>

BackFound ==
    /\ pc = "back" /\ left > 0
    /\ IsTradingDay(cur, holidays)
    /\ EnterForward(cur)
    /\ UNCHANGED <<clock, file, holidays, planned, classified>>

ForwardStep ==
    /\ pc = "forward" /\ left > 0
    /\ ~ IsTradingDay(cur, holidays)
    /\ cur' = cur + 1
    /\ left' = left - 1
    /\ UNCHANGED <<pc, clock, file, holidays, expected, planned, classified>>

ForwardFound ==
    /\ pc = "forward" /\ left > 0
    /\ IsTradingDay(cur, holidays)
    /\ planned' = cur
    /\ pc' = "ready"
    /\ UNCHANGED <<clock, file, holidays, loop, expected, classified>>

\* CalendarError: neither CLI catches it here.
LookFails ==
    /\ pc \in {"back", "forward"} /\ left = 0
    /\ pc' = "error"
    /\ UNCHANGED <<clock, file, holidays, loop, expected, planned, classified>>

-------------------------------------------------------------------------------
(* classify_data_status, for one symbol after another *)

\* A last bar later than the session, or none, is answered at once.
ClassifyAtOnce ==
    /\ pc = "ready"
    /\ \E b \in BarDays \cup {NoDay} :
          /\ b = NoDay \/ b > expected
          /\ last' = b
          /\ status' = IF b = NoDay THEN "MISSING" ELSE "INVALID"
    /\ UNCHANGED <<pc, clock, file, holidays, loop, expected, planned, count>>

StartCount ==
    /\ pc = "ready"
    /\ \E b \in BarDays : b <= expected /\ last' = b /\ cur' = b + 1
    /\ count' = 0
    /\ status' = "none"
    /\ pc' = "count"
    /\ UNCHANGED <<clock, file, holidays, left, expected, planned>>

CountDay ==
    /\ pc = "count" /\ cur <= expected
    /\ count' = IF IsTradingDay(cur, holidays) THEN count + 1 ELSE count
    /\ cur' = cur + 1
    /\ UNCHANGED <<pc, clock, file, holidays, left, expected, planned, last, status>>

EndCount ==
    /\ pc = "count" /\ cur > expected
    /\ status' = CASE count = 0 -> "CURRENT"
                   [] count = 1 -> "STALE_1_SESSION"
                   [] OTHER     -> "STALE_2_PLUS"
    /\ pc' = "ready"
    /\ UNCHANGED <<clock, file, holidays, loop, expected, planned, last, count>>

CalendarNext ==
    \/ Block \/ LoadHolidays
    \/ ExpectToday \/ LookBack \/ BackStep \/ BackFound
    \/ ForwardStep \/ ForwardFound \/ LookFails
    \/ ClassifyAtOnce \/ StartCount \/ CountDay \/ EndCount

CalendarSpec == CalendarInit /\ [][CalendarNext]_calendarVars

-------------------------------------------------------------------------------
(* Properties *)

Resolved == pc \in {"ready", "count"}

\* The two walks answer what their docstrings define: the last session closed
\* by the run's clock and the first trading day after it, by the loaded
\* holidays (resolve_session, previous_trading_day, next_trading_day); and the
\* run fails only when no session lies within their bound.
SessionResolved ==
    /\ Resolved => /\ expected = ExpectedSession(asOf, closed, holidays)
                   /\ planned = NextTradingDay(expected, holidays)
    /\ pc = "error" => \/ ExpectedSession(asOf, closed, holidays) = NoDay
                       \/ NextTradingDay(expected, holidays) = NoDay

\* classify_data_status gives each bar the status its docstring defines,
\* counting sessions and not calendar days, weekends or holidays.
StatusCountsSessions ==
    status # "none" => status = ClassifyDataStatus(last, expected, holidays)

\* What a run shows of its session and of each bar is what the docstrings define,
\* computed by other means.
AnswersAsDefined == SessionResolved /\ StatusCountsSessions

\* In strict mode the resolved dates are those of NSE's full calendar: the
\* years required_holiday_years demands are all the two walks can reach, across
\* a year boundary too.
StrictNeverGuesses ==
    (Resolved /\ strict) =>
        /\ expected = ExpectedSession(asOf, closed, official)
        /\ planned = NextTradingDay(expected, official)

\* A strict run's staleness is that of the full calendar although the count
\* starts at a bar of any age, in a year whose holidays were not loaded too:
\* those can only matter to a bar already two sessions behind, once the loaded
\* window has two sessions up to the expected one (load_holiday_set, called with
\* the years of the window alone, and sessions_between).
StrictStatusIsOfficial ==
    (status # "none" /\ strict
        /\ SessionsBetween(asOf - Window, expected, official) > 1) =>
            status = ClassifyDataStatus(last, expected, official)

\* A run that is not told to do without holidays shows what NSE's calendar gives,
\* whatever the file leaves out.
StrictRunsAreOfficial == StrictNeverGuesses /\ StrictStatusIsOfficial

=============================================================================
