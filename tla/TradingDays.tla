----------------------------- MODULE TradingDays -----------------------------
(***************************************************************************)
(* The date arithmetic of data/calendar.py as functions of a holiday set.  *)
(* A date is an integer and date 0 is a Monday; SessionCalendar runs the   *)
(* loops these definitions summarise.                                      *)
(***************************************************************************)
EXTENDS Integers, FiniteSets

CONSTANT MaxLook    \* max_lookback_days and max_lookahead_days

ASSUME MaxLookAssumption == MaxLook \in Nat \ {0}

\* In the place of a date: CalendarError was raised, or there is no bar.
NoDay == -1

IsWeekday(d) == d % 7 < 5

IsTradingDay(d, H) == IsWeekday(d) /\ d \notin H

Latest(S) == CHOOSE d \in S : \A e \in S : e <= d
Earliest(S) == CHOOSE d \in S : \A e \in S : d <= e

PreviousTradingDay(d, H) ==
    LET open == {e \in (d - MaxLook) .. (d - 1) : IsTradingDay(e, H)}
    IN  IF open = {} THEN NoDay ELSE Latest(open)

NextTradingDay(d, H) ==
    LET open == {e \in (d + 1) .. (d + MaxLook) : IsTradingDay(e, H)}
    IN  IF open = {} THEN NoDay ELSE Earliest(open)

\* sessions_between for start <= end, the only way classify_data_status calls it
SessionsBetween(start, end, H) ==
    Cardinality({d \in (start + 1) .. end : IsTradingDay(d, H)})

\* resolve_session: a trading day counts from its close on
ExpectedSession(day, closed, H) ==
    IF closed /\ IsTradingDay(day, H) THEN day ELSE PreviousTradingDay(day, H)

\* Mutation: a bar later than the expected session counts as current.
ClassifyByLagOnly(last, expected, H) ==
    IF SessionsBetween(last, expected, H) = 0 THEN "CURRENT" ELSE "STALE_1_SESSION"

ClassifyDataStatus(last, expected, H) ==
    IF last = NoDay THEN "MISSING"
    ELSE IF last > expected THEN "INVALID"
    ELSE LET lag == SessionsBetween(last, expected, H)
         IN  CASE lag = 0 -> "CURRENT"
               [] lag = 1 -> "STALE_1_SESSION"
               [] OTHER   -> "STALE_2_PLUS"

=============================================================================
